---- MODULE Spec2Model ----
(***************************************************************************)
(* A model of db-server: a TCP key-value server with named databases,      *)
(* per-key TTL, optional per-database authentication and JSON snapshots.   *)
(*                                                                         *)
(* State: the catalog all_dbs (main.rs:29), the Record Stores behind the   *)
(* Arc<Mutex<HashMap>> handles (heap), the snapshot files dbs/<name>.json  *)
(* (files), the clock (now), one task per connection (pc and the locals of *)
(* the connection loop of main.rs:51-502) and the cleaner task             *)
(* (cleaner.rs).  Every critical section of a std::sync::Mutex and every   *)
(* file operation is one atomic step; the cleaner keeps the catalog lock   *)
(* for a whole cycle, so its cycle is split into per-database steps that   *)
(* exclude the catalog steps of the sessions.                              *)
(*                                                                         *)
(* Time is counted in ticks, TicksPerSec ticks to the second, so that the  *)
(* whole-second truncation of save_to_file is not the identity.            *)
(***************************************************************************)
EXTENDS Integers, FiniteSets, Sequences, TLC

\* ---------------------------------------------------------------- bounds
MaxTime == 3
TicksPerSec == 2
\* the bits of a u64; the seconds of an Instant are an i64.  The integers
\* of the model have 32 bits, so the 64 bits of the program are scaled to
\* WordBits and the arguments of SET are placed relative to the limits
WordBits == 24

\* ------------------------------------------------------ program constants
MAX_AUTH_ATTEMPTS == 3

\* ------------------------------------------------------------ input sets
SessionSeq == <<"s1", "s2">>
NameSeq == <<"db1">>
Sessions == {SessionSeq[i] : i \in DOMAIN SessionSeq}
Names == {NameSeq[i] : i \in DOMAIN NameSeq}
Keys == {"k1"}
Values == {"v1", "v2"}
\* the one value written where the value itself plays no part
OneValue == {"v1"}
Users == {"u1", "u2"}
Passwords == {"p1", "p2"}
\* credentials a client gives when it creates a database
CreateUsers == {"u1"}
CreatePasswords == {"p1"}
\* replies to "Do you want authentication (yes/no)?"; "" is also end of input
YesReplies == {"yes", "YES"}
NoReplies == {"no", ""}
\* every kind of reply: "yes" in three spellings, "no" in two, a text that
\* is neither, the empty line
ChoiceReplies == YesReplies \cup NoReplies \cup {"Yes", "NO", "y"}
\* the third argument of SET: <<digits as a number (-1: none), unit text>>
NoTTLArg == <<-2, "">>
TTLArgs == {NoTTLArg, <<1, "s">>, <<1, "h">>}
\* a name no client ever creates
AbsentName == "db0"

\* ------------------------------------------------------------ encodings
\* u64::MAX of the parsed TTL number and i64::MAX of the seconds of an Instant
U64_MAX == 2^WordBits - 1
I64_MAX == 2^(WordBits - 1) - 1
\* Option::None of expires_at (db.rs:169) and of the serialized seconds (db.rs:36)
NoExpiry == -1
\* Option::None of username (db.rs:25); no line a client sends equals it
NoUser == "<None>"
\* Option::None of password (db.rs:27)
NoPassword == <<>>
\* Option::None of an Option<DbInstance> / Option<Arc<DbInstance>>
NoDb == [name |-> "", data |-> 0, require_auth |-> FALSE, username |-> NoUser, password |-> NoPassword]
IsSome(inst) == inst.data # 0

\* handles of Record Stores: the catalog entries plus, per session, the
\* selection and the instance a running use/drop/create holds
StoreIds == 1 .. (Cardinality(Names) + 2 * Cardinality(Sessions))

VARIABLES
    now,                  \* Instant::now(), in ticks
    all_dbs,              \* main.rs:29   name -> DbInstance
    heap,                 \* db.rs:12     handle -> HashMap<String, ValueWithExpiry>
    files,                \* dbs/<name>.json -> SerializableDb
    pc,                   \* where each connection task stands
    current_db_instance,  \* main.rs:55
    db_name,              \* main.rs:91, 190, 320
    db_instance,          \* main.rs:122, 191, 336
    exists_in_memory,     \* main.rs:336
    auth_attempts,        \* main.rs:214, 364
    cleaner,              \* the task of cleaner.rs: position and databases left in the cycle
    guards,               \* the MutexGuards in scope in each task: "catalog" (dbs), "data" (a map)
    written,              \* history: the last SET of each (database name, key) still in force
    event                 \* history: the step just taken and what it answered

vars == <<now, all_dbs, heap, files, pc, current_db_instance, db_name, db_instance,
          exists_in_memory, auth_attempts, cleaner, guards, written, event>>

\* ------------------------------------------------------------ bcrypt
\* bcrypt::hash (main.rs:146): opaque and one-way; the hash is not the password
Hash(p) == <<"bcrypt", p>>

\* bcrypt::verify (main.rs:247, 393): "err" for a text that is no bcrypt hash
Verify(p, h) == IF h = NoPassword THEN "err" ELSE IF h = Hash(p) THEN "ok" ELSE "bad"

\* str::to_lowercase on the replies a client gives
ToLowercase(str) == IF str \in {"YES", "Yes"} THEN "yes" ELSE IF str = "NO" THEN "no" ELSE str

IsYesMutCaseSensitive(reply) == reply = "yes"

\* auth_line.trim().to_lowercase() == "yes" (main.rs:120)
IsYes(reply) == ToLowercase(reply) = "yes"

\* ---------------------------------------------------------- db.rs records
IsExpiredMutAlwaysFresh(rec, t) == FALSE

\* ValueWithExpiry::is_expired (db.rs:189-193)
IsExpired(rec, t) == IF rec.expires_at = NoExpiry THEN FALSE ELSE t > rec.expires_at

\* Instant + Duration (db.rs:176, 83) panics when the seconds leave the i64
\* of the Instant; t and d in ticks
InstantAddOverflows(t, d) == (t \div TicksPerSec) + (d \div TicksPerSec) > I64_MAX

\* ValueWithExpiry::new (db.rs:174-186); ttl in ticks, NoExpiry for None
ValueWithExpiryNew(value, ttl, t) ==
    [value |-> value, expires_at |-> IF ttl = NoExpiry THEN NoExpiry ELSE t + ttl]

\* num * 60 and num * 60 * 60 * 24 on u64, left to right (parser.rs:24-25):
\* a product past u64::MAX panics in a build with overflow checks and wraps
\* in a build without
RECURSIVE MulU64(_, _, _)
MulU64(x, factors, checks) ==
    IF factors = <<>> THEN <<"ok", x>>
    ELSE IF x * Head(factors) <= U64_MAX THEN MulU64(x * Head(factors), Tail(factors), checks)
    ELSE IF checks THEN <<"panic", "attempt to multiply with overflow">>
    ELSE MulU64((x * Head(factors)) % (U64_MAX + 1), Tail(factors), checks)

\* parse_duration (parser.rs:11-28): <<"ok", seconds>> or <<"err", message>>,
\* or the panic of a checked multiplication; the digits are parsed as a u64
parse_duration(arg, checks) ==
    IF arg[1] = -1 /\ arg[2] = "" THEN <<"err", "Empty TTL provided">>
    ELSE IF arg[1] < 0 \/ arg[1] > U64_MAX THEN <<"err", "Invalid TTL number">>
    ELSE IF arg[2] = "s" THEN <<"ok", arg[1]>>
    ELSE IF arg[2] = "m" THEN MulU64(arg[1], <<60>>, checks)
    ELSE IF arg[2] = "d" THEN MulU64(arg[1], <<60, 60, 24>>, checks)
    ELSE <<"err", "Invalid TTL unit (use s, m, or d)">>

MapRemoveMutAll(m, k) == <<>>

\* HashMap::insert and HashMap::remove
MapInsert(m, k, v) == [x \in DOMAIN m \cup {k} |-> IF x = k THEN v ELSE m[x]]
MapRemove(m, k) == [x \in DOMAIN m \ {k} |-> m[x]]

save_to_fileMutRoundUp(inst, h, t) ==
    [data |-> [k \in DOMAIN h[inst.data] |->
                 [value |-> h[inst.data][k].value,
                  expires_at |-> IF h[inst.data][k].expires_at = NoExpiry THEN NoExpiry
                                 ELSE IF h[inst.data][k].expires_at >= t
                                      THEN (h[inst.data][k].expires_at - t + TicksPerSec - 1) \div TicksPerSec
                                      ELSE 0]],
     require_auth |-> inst.require_auth,
     username |-> inst.username,
     password |-> inst.password]

\* DbInstance::save_to_file (db.rs:104-154): the document written at time t
save_to_file(inst, h, t) ==
    [data |-> [k \in DOMAIN h[inst.data] |->
                 [value |-> h[inst.data][k].value,
                  expires_at |-> IF h[inst.data][k].expires_at = NoExpiry THEN NoExpiry
                                 ELSE IF h[inst.data][k].expires_at >= t
                                      THEN (h[inst.data][k].expires_at - t) \div TicksPerSec
                                      ELSE 0]],
     require_auth |-> inst.require_auth,
     username |-> inst.username,
     password |-> inst.password]

LoadDataMutNoClock(doc, t) ==
    [k \in DOMAIN doc.data |->
        [value |-> doc.data[k].value,
         expires_at |-> IF doc.data[k].expires_at = NoExpiry THEN NoExpiry
                        ELSE doc.data[k].expires_at * TicksPerSec]]

\* Instant::now() + Duration::from_secs(..) of load_from_file (db.rs:82-86)
\* panics for some record of the document read at time t
LoadPanics(doc, t) ==
    \E k \in DOMAIN doc.data :
        /\ doc.data[k].expires_at # NoExpiry
        /\ InstantAddOverflows(t, doc.data[k].expires_at * TicksPerSec)

\* DbInstance::load_from_file (db.rs:80-92): the map rebuilt at time t
LoadData(doc, t) ==
    [k \in DOMAIN doc.data |->
        [value |-> doc.data[k].value,
         expires_at |-> IF doc.data[k].expires_at = NoExpiry THEN NoExpiry
                        ELSE t + doc.data[k].expires_at * TicksPerSec]]

load_from_fileMutNoAuth(doc, name, id) ==
    [name |-> name, data |-> id, require_auth |-> FALSE,
     username |-> NoUser, password |-> NoPassword]

\* DbInstance::load_from_file (db.rs:94-100): the instance, its map at handle id
load_from_file(doc, name, id) ==
    [name |-> name, data |-> id, require_auth |-> doc.require_auth,
     username |-> doc.username, password |-> doc.password]

\* Arc::new(Mutex::new(..)) (db.rs:55, 95): a handle no one owns
FreshId(h) == CHOOSE i \in StoreIds \ DOMAIN h : \A j \in StoreIds \ DOMAIN h : i <= j

\* the tasks: one per connection (main.rs:51) and the cleaner (cleaner.rs:11)
Tasks == Sessions \cup {"cleaner"}

\* the lock of the catalog and the lock of the map at handle id
CatalogLock == <<"catalog", 0>>
DataLock(id) == <<"data", id>>

\* the map whose lock a task takes: a session locks the map of its
\* selection (parser.rs:70, 88, 111, db.rs:107), the cleaner the map of the
\* database it has reached (cleaner.rs:20, db.rs:107)
StoreOf(task) ==
    IF task = "cleaner"
    THEN (IF cleaner.cur \in DOMAIN all_dbs THEN all_dbs[cleaner.cur].data ELSE 0)
    ELSE current_db_instance[task].data

\* the locks a task holds
HeldBy(task) ==
    (IF "catalog" \in guards[task] THEN {CatalogLock} ELSE {})
        \cup (IF "data" \in guards[task] THEN {DataLock(StoreOf(task))} ELSE {})

\* the locks that are taken
Held == UNION {HeldBy(task) : task \in Tasks}

\* Mutex::lock returns at once
CatalogLockFree == CatalogLock \notin Held
DataLockFree(id) == DataLock(id) \notin Held

\* a guard comes into scope, goes out of scope
Lock(task, lock) == guards' = [guards EXCEPT ![task] = @ \cup {lock}]
Unlock(task, lock) == guards' = [guards EXCEPT ![task] = @ \ {lock}]

\* every place that can own a handle, in a fixed order: the catalog entries,
\* the selections, the instances held by running commands (0: no handle)
Owners(cat, cur, loc) ==
    [i \in 1 .. (Len(NameSeq) + 2 * Len(SessionSeq)) |->
        IF i <= Len(NameSeq)
        THEN (IF NameSeq[i] \in DOMAIN cat THEN cat[NameSeq[i]].data ELSE 0)
        ELSE IF i <= Len(NameSeq) + Len(SessionSeq)
        THEN cur[SessionSeq[i - Len(NameSeq)]].data
        ELSE loc[SessionSeq[i - Len(NameSeq) - Len(SessionSeq)]].data]

\* the new catalog, selections, held instances and maps.  A map whose last
\* Arc is gone is freed.  A handle is an address and nothing reads its
\* value, so the live handles are renumbered in the order of their first
\* owner: states that differ only in addresses are one state.
Commit(h, cat, cur, loc, w) ==
    \E own \in {Owners(cat, cur, loc)} :
    \E live \in {{own[i] : i \in DOMAIN own} \ {0}} :
    \E first \in {[id \in live |-> CHOOSE i \in DOMAIN own :
                                       own[i] = id /\ \A j \in 1 .. (i - 1) : own[j] # id]} :
    \E rank \in {[id \in StoreIds \cup {0} |->
                     IF id \notin live THEN 0
                     ELSE Cardinality({x \in live : first[x] <= first[id]})]} :
    /\ all_dbs' = [n \in DOMAIN cat |-> [cat[n] EXCEPT !.data = rank[@]]]
    /\ current_db_instance' = [s \in Sessions |-> [cur[s] EXCEPT !.data = rank[@]]]
    /\ db_instance' = [s \in Sessions |-> [loc[s] EXCEPT !.data = rank[@]]]
    /\ heap' = [i \in 1 .. Cardinality(live) |-> h[CHOOSE x \in live : rank[x] = i]]
    /\ written' = [x \in DOMAIN w |-> [w[x] EXCEPT !.data = rank[@]]]

\* a step that moves no handle: only the maps and the history change
Keep(h, w) ==
    /\ heap' = h
    /\ written' = w
    /\ UNCHANGED <<all_dbs, current_db_instance, db_instance>>

Ev(who, op, name, key, msg, val, exp) ==
    [who |-> who, op |-> op, name |-> name, key |-> key, msg |-> msg, val |-> val, exp |-> exp,
     arg |-> NoTTLArg]

\* a panic unwinds the task of a connection (main.rs:51): its Arcs are
\* dropped and its socket is closed.  A guard of dbs dropped by the
\* unwinding poisons the mutex; the model leaves that guard with the dead
\* task, so that no lock() of dbs returns Ok again
TaskPanics(s, poisons) ==
    /\ pc' = [pc EXCEPT ![s] = IF poisons THEN "panicked" ELSE "closed"]
    /\ Commit(heap, all_dbs, [current_db_instance EXCEPT ![s] = NoDb],
              [db_instance EXCEPT ![s] = NoDb], written)

\* the mutex of the catalog is poisoned: lock().unwrap() panics
\* (main.rs:168, 192, 337, 421, 438, cleaner.rs:15)
Poisoned == \E s \in Sessions : pc[s] = "panicked" /\ "catalog" \in guards[s]

\* the locals of a connection task outside any command
ResetLocals(s) ==
    /\ db_name' = [db_name EXCEPT ![s] = ""]
    /\ exists_in_memory' = [exists_in_memory EXCEPT ![s] = FALSE]
    /\ auth_attempts' = [auth_attempts EXCEPT ![s] = 0]

\* ------------------------------------------------------------------ Init
\* main.rs:19-36: an empty catalog, no connection, the cleaner started.
Init ==
    /\ now = 0
    /\ all_dbs = <<>>
    /\ heap = <<>>
    /\ files = <<>>
    /\ pc = [s \in Sessions |-> "closed"]
    /\ current_db_instance = [s \in Sessions |-> NoDb]
    /\ db_name = [s \in Sessions |-> ""]
    /\ db_instance = [s \in Sessions |-> NoDb]
    /\ exists_in_memory = [s \in Sessions |-> FALSE]
    /\ auth_attempts = [s \in Sessions |-> 0]
    /\ cleaner = [pc |-> "sleep", todo |-> {}, cur |-> ""]
    /\ guards = [task \in Tasks |-> {}]
    /\ written = <<>>
    /\ event = Ev("", "init", "", "", "", "", NoExpiry)

\* a record with a deadline exists in some map
SomeDeadline == \E i \in DOMAIN heap : \E k \in DOMAIN heap[i] : heap[i][k].expires_at # NoExpiry

\* the clock advances; Instants are only ever compared with the deadlines of
\* records, so the clock is left at rest while no record has one
Tick ==
    /\ now < MaxTime
    /\ SomeDeadline
    /\ now' = now + 1
    /\ event' = Ev("clock", "tick", "", "", "", "", NoExpiry)
    /\ UNCHANGED <<guards, all_dbs, heap, files, pc, current_db_instance, db_name, db_instance,
                   exists_in_memory, auth_attempts, cleaner, written>>


\* -------------------------------------------------- connections (main.rs)
\* listener.accept() and tokio::spawn (main.rs:42-55)
Accept(s) ==
    /\ pc[s] = "closed"
    /\ pc' = [pc EXCEPT ![s] = "idle"]
    /\ event' = Ev(s, "accept", "", "", "", "", NoExpiry)
    /\ UNCHANGED <<guards, now, all_dbs, heap, files, current_db_instance, db_name, db_instance,
                   exists_in_memory, auth_attempts, cleaner, written>>

\* read_line returns Ok(0) or Err at the top of the loop (main.rs:58-69), or
\* Err / a failed write at a prompt of create (main.rs:107-144): the task ends
Disconnect(s) ==
    /\ pc[s] \in {"idle", "create_choice", "create_cred"}
    /\ pc' = [pc EXCEPT ![s] = "closed"]
    /\ ResetLocals(s)
    /\ Commit(heap, all_dbs, [current_db_instance EXCEPT ![s] = NoDb],
              [db_instance EXCEPT ![s] = NoDb], written)
    /\ event' = Ev(s, "disconnect", "", "", "", "", NoExpiry)
    /\ UNCHANGED <<guards, now, files, cleaner>>

AlreadySelectedMutNever(s) == FALSE

\* current_db_instance.is_some() (main.rs:80, 184)
AlreadySelected(s) == IsSome(current_db_instance[s])

\* "create <name>" up to the authentication prompt (main.rs:78-113)
CreateCmd(s, n) ==
    /\ pc[s] = "idle"
    /\ IF AlreadySelected(s)
       THEN /\ event' = Ev(s, "create", n, "", "Cannot create a database. A database is already selected.", "", NoExpiry)
            /\ UNCHANGED <<pc, db_name>>
       ELSE IF n \in DOMAIN files
       THEN /\ event' = Ev(s, "create", n, "", "Error: Database already exists", "", NoExpiry)
            /\ UNCHANGED <<pc, db_name>>
       ELSE /\ event' = Ev(s, "create", n, "", "Do you want authentication (yes/no)?", "", NoExpiry)
            /\ pc' = [pc EXCEPT ![s] = "create_choice"]
            /\ db_name' = [db_name EXCEPT ![s] = n]
    /\ UNCHANGED <<guards, now, all_dbs, heap, files, current_db_instance, db_instance,
                   exists_in_memory, auth_attempts, cleaner, written>>

\* DbInstance::new (db.rs:50-65): a fresh map, saved at once; a failed save
\* panics (expect, db.rs:63) and the task ends
DbInstanceNew(s, require_auth, username, password, ok) ==
    LET id == FreshId(heap)
        inst == [name |-> db_name[s], data |-> id, require_auth |-> require_auth,
                 username |-> username, password |-> password]
        h == MapInsert(heap, id, <<>>)
    IN IF ok
       THEN /\ files' = MapInsert(files, db_name[s], save_to_file(inst, h, now))
            /\ pc' = [pc EXCEPT ![s] = "create_insert"]
            /\ Commit(h, all_dbs, current_db_instance, [db_instance EXCEPT ![s] = inst], written)
            /\ event' = Ev(s, "new", db_name[s], "", "", "", NoExpiry)
            /\ UNCHANGED <<db_name, exists_in_memory, auth_attempts>>
       ELSE /\ pc' = [pc EXCEPT ![s] = "closed"]
            /\ ResetLocals(s)
            /\ event' = Ev(s, "new", db_name[s], "", "panic: Failed to save new database", "", NoExpiry)
            /\ UNCHANGED <<files, all_dbs, heap, current_db_instance, db_instance, written>>

\* the reply to the authentication prompt (main.rs:114-122, 162-164)
CreateChoice(s, reply, ok) ==
    /\ pc[s] = "create_choice"
    /\ IF IsYes(reply)
       THEN /\ pc' = [pc EXCEPT ![s] = "create_cred"]
            /\ event' = Ev(s, "choice", db_name[s], "", "Enter username:", "", NoExpiry)
            /\ UNCHANGED <<all_dbs, heap, files, current_db_instance, db_name, db_instance,
                           exists_in_memory, auth_attempts, written>>
       ELSE DbInstanceNew(s, FALSE, NoUser, NoPassword, ok)
    /\ UNCHANGED <<guards, now, cleaner>>

\* username and password of the new database (main.rs:123-161)
CreateCred(s, u, p, ok) ==
    /\ pc[s] = "create_cred"
    /\ DbInstanceNew(s, TRUE, u, Hash(p), ok)
    /\ UNCHANGED <<guards, now, cleaner>>

\* dbs.insert(db_name, db_instance) under the catalog lock (main.rs:166-178)
CreateInsert(s) ==
    /\ pc[s] = "create_insert"
    /\ CatalogLockFree
    /\ pc' = [pc EXCEPT ![s] = "idle"]
    /\ ResetLocals(s)
    /\ Commit(heap, MapInsert(all_dbs, db_name[s], db_instance[s]), current_db_instance,
              [db_instance EXCEPT ![s] = NoDb], written)
    /\ event' = Ev(s, "created", db_name[s], "", "Database created successfully", "", NoExpiry)
    /\ UNCHANGED <<guards, now, files, cleaner>>

\* "use <name>": the catalog lookup, or the load, under the catalog lock
\* (main.rs:182-211, 288-316)
UseCmd(s, n) ==
    /\ pc[s] = "idle"
    /\ IF ~AlreadySelected(s) /\ n \notin DOMAIN all_dbs /\ n \in DOMAIN files /\ LoadPanics(files[n], now)
       THEN /\ CatalogLockFree
            /\ TaskPanics(s, TRUE)
            /\ guards' = [guards EXCEPT ![s] = {"catalog"}]
            /\ event' = Ev(s, "use", n, "", "panic", "", NoExpiry)
            /\ UNCHANGED <<db_name, exists_in_memory, auth_attempts>>
       ELSE /\ IF AlreadySelected(s)
               THEN /\ event' = Ev(s, "use", n, "", "Cannot use a different database. A database is already selected.", "", NoExpiry)
                    /\ UNCHANGED <<all_dbs, heap, pc, current_db_instance, db_name, db_instance,
                                   exists_in_memory, auth_attempts, written>>
               ELSE /\ CatalogLockFree
                    /\ LET id == FreshId(heap)
                           found == IF n \in DOMAIN all_dbs THEN all_dbs[n]
                                    ELSE IF n \in DOMAIN files THEN load_from_file(files[n], n, id)
                                    ELSE NoDb
                           h == IF n \notin DOMAIN all_dbs /\ n \in DOMAIN files
                                THEN MapInsert(heap, id, LoadData(files[n], now)) ELSE heap
                           cat == IF n \notin DOMAIN all_dbs /\ n \in DOMAIN files
                                  THEN MapInsert(all_dbs, n, found) ELSE all_dbs
                       IN IF ~IsSome(found)
                          THEN /\ event' = Ev(s, "use", n, "", "Database not found", "", NoExpiry)
                               /\ UNCHANGED <<all_dbs, heap, pc, current_db_instance, db_name,
                                              db_instance, exists_in_memory, auth_attempts, written>>
                          ELSE IF found.require_auth
                          THEN /\ pc' = [pc EXCEPT ![s] = "use_auth"]
                               /\ db_name' = [db_name EXCEPT ![s] = n]
                               /\ auth_attempts' = [auth_attempts EXCEPT ![s] = 0]
                               /\ Commit(h, cat, current_db_instance,
                                         [db_instance EXCEPT ![s] = found], written)
                               /\ event' = Ev(s, "use", n, "", "Username:", "", NoExpiry)
                               /\ UNCHANGED exists_in_memory
                          ELSE /\ Commit(h, cat, [current_db_instance EXCEPT ![s] = found],
                                         db_instance, written)
                               /\ event' = Ev(s, "use", n, "", "Using database", "", NoExpiry)
                               /\ UNCHANGED <<pc, db_name, exists_in_memory, auth_attempts>>
            /\ UNCHANGED guards
    /\ UNCHANGED <<now, files, cleaner>>

\* the use branch once the lookup is over and dbs is released
\* (main.rs:209-316): the prompt for credentials, the selection or not found
UseDone(s, n, found, h, cat) ==
    IF ~IsSome(found)
    THEN /\ pc' = [pc EXCEPT ![s] = "idle"]
         /\ ResetLocals(s)
         /\ event' = Ev(s, "use", n, "", "Database not found", "", NoExpiry)
         /\ UNCHANGED <<all_dbs, heap, current_db_instance, db_instance, written>>
    ELSE IF found.require_auth
    THEN /\ pc' = [pc EXCEPT ![s] = "use_auth"]
         /\ db_name' = [db_name EXCEPT ![s] = n]
         /\ auth_attempts' = [auth_attempts EXCEPT ![s] = 0]
         /\ Commit(h, cat, current_db_instance, [db_instance EXCEPT ![s] = found], written)
         /\ event' = Ev(s, "use", n, "", "Username:", "", NoExpiry)
         /\ UNCHANGED exists_in_memory
    ELSE /\ pc' = [pc EXCEPT ![s] = "idle"]
         /\ ResetLocals(s)
         /\ Commit(h, cat, [current_db_instance EXCEPT ![s] = found], db_instance, written)
         /\ event' = Ev(s, "use", n, "", "Using database", "", NoExpiry)

UseBlockEndMutGuardKept(g) == g

\* the block of the lookup ends and its guard on dbs goes out of scope
\* (main.rs:191-207), before the first prompt (main.rs:209)
UseBlockEnd(g) == g \ {"catalog"}

\* "use <name>", lock by lock: all_dbs.lock() (main.rs:182-192)
UseLock(s, n) ==
    /\ pc[s] = "idle"
    /\ IF AlreadySelected(s)
       THEN /\ event' = Ev(s, "use", n, "", "Cannot use a different database. A database is already selected.", "", NoExpiry)
            /\ UNCHANGED <<pc, db_name, guards>>
       ELSE /\ CatalogLockFree
            /\ Lock(s, "catalog")
            /\ pc' = [pc EXCEPT ![s] = "use_locked"]
            /\ db_name' = [db_name EXCEPT ![s] = n]
            /\ event' = Ev(s, "use", n, "", "lock", "", NoExpiry)
    /\ UNCHANGED <<now, all_dbs, heap, files, current_db_instance, db_instance,
                   exists_in_memory, auth_attempts, cleaner, written>>

\* dbs.get under the lock (main.rs:195-199): the instance in memory, or on to
\* load_from_file with the lock still held
UseLookup(s) ==
    /\ pc[s] = "use_locked"
    /\ IF db_name[s] \in DOMAIN all_dbs
       THEN /\ UseDone(s, db_name[s], all_dbs[db_name[s]], heap, all_dbs)
            /\ guards' = [guards EXCEPT ![s] = UseBlockEnd(@)]
       ELSE /\ pc' = [pc EXCEPT ![s] = "use_load"]
            /\ event' = Ev(s, "use", db_name[s], "", "load", "", NoExpiry)
            /\ UNCHANGED <<all_dbs, heap, current_db_instance, db_name, db_instance,
                           exists_in_memory, auth_attempts, written, guards>>
    /\ UNCHANGED <<now, files, cleaner>>

\* load_from_file and dbs.insert under the lock, then the lock is released
\* (main.rs:199-207)
UseLoad(s) ==
    /\ pc[s] = "use_load"
    /\ LET n == db_name[s]
           id == FreshId(heap)
       IN IF n \in DOMAIN files /\ LoadPanics(files[n], now)
          THEN /\ TaskPanics(s, TRUE)
               /\ ResetLocals(s)
               /\ guards' = [guards EXCEPT ![s] = {"catalog"}]
               /\ event' = Ev(s, "use", n, "", "panic", "", NoExpiry)
          ELSE /\ IF n \in DOMAIN files
                  THEN UseDone(s, n, load_from_file(files[n], n, id),
                               MapInsert(heap, id, LoadData(files[n], now)),
                               MapInsert(all_dbs, n, load_from_file(files[n], n, id)))
                  ELSE UseDone(s, n, NoDb, heap, all_dbs)
               /\ guards' = [guards EXCEPT ![s] = UseBlockEnd(@)]
    /\ UNCHANGED <<now, files, cleaner>>

AttemptsExhaustedMutOneMore(attempts) == attempts > MAX_AUTH_ATTEMPTS

\* the negation of auth_attempts < MAX_AUTH_ATTEMPTS (main.rs:217, 282, 367)
AttemptsExhausted(attempts) == attempts >= MAX_AUTH_ATTEMPTS

\* the end of the use branch when the credential loop is left without
\* success (main.rs:281-287): disconnect once the attempts are used up
UseGiveUp(s, attempts, msg) ==
    /\ ResetLocals(s)
    /\ Commit(heap, all_dbs, current_db_instance, [db_instance EXCEPT ![s] = NoDb], written)
    /\ IF AttemptsExhausted(attempts)
       THEN /\ pc' = [pc EXCEPT ![s] = "closed"]
            /\ event' = Ev(s, "auth", db_name[s], "", "Too many failed authentication attempts. Disconnecting.", "", NoExpiry)
       ELSE /\ pc' = [pc EXCEPT ![s] = "idle"]
            /\ event' = Ev(s, "auth", db_name[s], "", msg, "", NoExpiry)

UseCredentialsOkMutAnyPassword(inst, u, p) == inst.username = u

\* the test of one credential pair (main.rs:247-258)
UseCredentialsOk(inst, u, p) == inst.username = u /\ Verify(p, inst.password) = "ok"

\* one pass of the credential loop of use (main.rs:217-280)
UseAuth(s, u, p) ==
    /\ pc[s] = "use_auth"
    /\ LET attempts == auth_attempts[s] + 1 IN
       IF Verify(p, db_instance[s].password) = "err"
       THEN UseGiveUp(s, attempts, "Authentication error.")
       ELSE IF UseCredentialsOk(db_instance[s], u, p)
       THEN /\ pc' = [pc EXCEPT ![s] = "idle"]
            /\ ResetLocals(s)
            /\ Commit(heap, all_dbs, [current_db_instance EXCEPT ![s] = db_instance[s]],
                      [db_instance EXCEPT ![s] = NoDb], written)
            /\ event' = Ev(s, "auth", db_name[s], u, "Authentication successful Using database", p, NoExpiry)
       ELSE IF AttemptsExhausted(attempts)
       THEN UseGiveUp(s, attempts, "")
       ELSE /\ auth_attempts' = [auth_attempts EXCEPT ![s] = attempts]
            /\ event' = Ev(s, "auth", db_name[s], "", "Authentication failed. Try again.", "", NoExpiry)
            /\ UNCHANGED <<all_dbs, heap, pc, current_db_instance, db_name, db_instance,
                           exists_in_memory, written>>
    /\ UNCHANGED <<guards, now, files, cleaner>>

\* a socket error inside the credential loop of use breaks the loop
\* (main.rs:220-245)
UseAuthIoError(s) ==
    /\ pc[s] = "use_auth"
    /\ UseGiveUp(s, auth_attempts[s] + 1, "")
    /\ UNCHANGED <<guards, now, files, cleaner>>


\* the state a drop goes to once it holds the instance (main.rs:356-362, 433)
DropNextPc(inst) == IF inst.require_auth THEN "drop_auth" ELSE "drop_delete"

DropSelfCheckMutNone(s, n) == FALSE

\* the test of main.rs:323-324: the name is the one this session has selected
DropSelfCheck(s, n) == IsSome(current_db_instance[s]) /\ current_db_instance[s].name = n

\* "drop <name>": the self check, then dbs.remove under the catalog lock
\* (main.rs:319-343)
DropCmd(s, n) ==
    /\ pc[s] = "idle"
    /\ IF DropSelfCheck(s, n)
       THEN /\ event' = Ev(s, "drop", n, "", "Cannot drop the currently selected database.", "", NoExpiry)
            /\ UNCHANGED <<all_dbs, heap, pc, current_db_instance, db_name, db_instance,
                           exists_in_memory, auth_attempts, written>>
       ELSE /\ CatalogLockFree
            /\ db_name' = [db_name EXCEPT ![s] = n]
            /\ auth_attempts' = [auth_attempts EXCEPT ![s] = 0]
            /\ IF n \in DOMAIN all_dbs
               THEN /\ pc' = [pc EXCEPT ![s] = DropNextPc(all_dbs[n])]
                    /\ exists_in_memory' = [exists_in_memory EXCEPT ![s] = TRUE]
                    /\ Commit(heap, MapRemove(all_dbs, n), current_db_instance,
                              [db_instance EXCEPT ![s] = all_dbs[n]], written)
                    /\ event' = Ev(s, "drop", n, "", "removed", "", NoExpiry)
               ELSE /\ pc' = [pc EXCEPT ![s] = "drop_load"]
                    /\ event' = Ev(s, "drop", n, "", "absent", "", NoExpiry)
                    /\ UNCHANGED <<all_dbs, heap, current_db_instance, db_instance,
                                   exists_in_memory, written>>
    /\ UNCHANGED <<guards, now, files, cleaner>>

\* the instance is not in the catalog: load it from its file, outside the
\* catalog (main.rs:345-354, 465-475)
DropLoad(s) ==
    /\ pc[s] = "drop_load"
    /\ IF db_name[s] \in DOMAIN files /\ LoadPanics(files[db_name[s]], now)
       THEN /\ TaskPanics(s, FALSE)
            /\ ResetLocals(s)
            /\ event' = Ev(s, "drop", db_name[s], "", "panic", "", NoExpiry)
       ELSE IF db_name[s] \in DOMAIN files
       THEN LET id == FreshId(heap)
                inst == load_from_file(files[db_name[s]], db_name[s], id)
            IN /\ pc' = [pc EXCEPT ![s] = DropNextPc(inst)]
               /\ Commit(MapInsert(heap, id, LoadData(files[db_name[s]], now)), all_dbs,
                         current_db_instance, [db_instance EXCEPT ![s] = inst], written)
               /\ event' = Ev(s, "drop", db_name[s], "", "loaded", "", NoExpiry)
               /\ UNCHANGED <<db_name, exists_in_memory, auth_attempts>>
       ELSE /\ pc' = [pc EXCEPT ![s] = "idle"]
            /\ ResetLocals(s)
            /\ event' = Ev(s, "drop", db_name[s], "", "Database not found", "", NoExpiry)
            /\ UNCHANGED <<all_dbs, heap, current_db_instance, db_instance, written>>
    /\ UNCHANGED <<guards, now, files, cleaner>>

\* the drop is given up (main.rs:418-430, 435-452): the instance goes back
\* into the catalog if it came from there
DropAbort(s, msg) ==
    /\ event' = Ev(s, "drop", db_name[s], "", msg, "", NoExpiry)
    /\ IF exists_in_memory[s]
       THEN /\ pc' = [pc EXCEPT ![s] = "drop_reinsert"]
            /\ auth_attempts' = [auth_attempts EXCEPT ![s] = 0]
            /\ UNCHANGED <<all_dbs, heap, current_db_instance, db_name, db_instance,
                           exists_in_memory, written>>
       ELSE /\ pc' = [pc EXCEPT ![s] = "idle"]
            /\ ResetLocals(s)
            /\ Commit(heap, all_dbs, current_db_instance,
                      [db_instance EXCEPT ![s] = NoDb], written)

\* one pass of the credential loop of drop (main.rs:367-416)
DropAuth(s, u, p) ==
    /\ pc[s] = "drop_auth"
    /\ LET attempts == auth_attempts[s] + 1 IN
       IF Verify(p, db_instance[s].password) = "err"
       THEN DropAbort(s, "Authentication error.")
       ELSE IF db_instance[s].username = u /\ Verify(p, db_instance[s].password) = "ok"
       THEN /\ pc' = [pc EXCEPT ![s] = "drop_delete"]
            /\ auth_attempts' = [auth_attempts EXCEPT ![s] = 0]
            /\ event' = Ev(s, "drop", db_name[s], u, "authenticated", p, NoExpiry)
            /\ UNCHANGED <<all_dbs, heap, current_db_instance, db_name, db_instance,
                           exists_in_memory, written>>
       ELSE IF AttemptsExhausted(attempts)
       THEN DropAbort(s, "Too many failed authentication attempts. Operation aborted.")
       ELSE /\ auth_attempts' = [auth_attempts EXCEPT ![s] = attempts]
            /\ event' = Ev(s, "drop", db_name[s], "", "Authentication failed. Try again.", "", NoExpiry)
            /\ UNCHANGED <<all_dbs, heap, pc, current_db_instance, db_name, db_instance,
                           exists_in_memory, written>>
    /\ UNCHANGED <<guards, now, files, cleaner>>

\* a socket error inside the credential loop of drop breaks the loop
\* (main.rs:370-391)
DropAuthIoError(s) ==
    /\ pc[s] = "drop_auth"
    /\ DropAbort(s, "Too many failed authentication attempts. Operation aborted.")
    /\ UNCHANGED <<guards, now, files, cleaner>>

\* std::fs::remove_file (main.rs:433-463); ok is false when the file system
\* refuses, and the removal of a missing file fails too
DropDelete(s, ok) ==
    /\ pc[s] = "drop_delete"
    /\ IF ok /\ db_name[s] \in DOMAIN files
       THEN /\ files' = MapRemove(files, db_name[s])
            /\ pc' = [pc EXCEPT ![s] = "idle"]
            /\ ResetLocals(s)
            /\ Commit(heap, all_dbs, current_db_instance, [db_instance EXCEPT ![s] = NoDb],
                      [x \in {y \in DOMAIN written : y[1] # db_name[s]} |-> written[x]])
            /\ event' = Ev(s, "drop", db_name[s], "", "Database deleted successfully", "", NoExpiry)
       ELSE /\ DropAbort(s, "Error deleting database file")
            /\ UNCHANGED files
    /\ UNCHANGED <<guards, now, cleaner>>

\* dbs.insert(db_name.clone(), db_instance) (main.rs:420-423, 437-440)
DropReinsert(s) ==
    /\ pc[s] = "drop_reinsert"
    /\ CatalogLockFree
    /\ pc' = [pc EXCEPT ![s] = "idle"]
    /\ ResetLocals(s)
    /\ Commit(heap, MapInsert(all_dbs, db_name[s], db_instance[s]), current_db_instance,
              [db_instance EXCEPT ![s] = NoDb], written)
    /\ event' = Ev(s, "drop", db_name[s], "", "reinserted", "", NoExpiry)
    /\ UNCHANGED <<guards, now, files, cleaner>>


\* ------------------------------------------------ commands (parser.rs)
\* the Duration of the optional third argument of SET (parser.rs:55-64), in
\* ticks: <<"ok", ticks or NoExpiry>> or <<"err", message>>
SetTtl(arg, checks) ==
    IF arg = NoTTLArg THEN <<"ok", NoExpiry>>
    ELSE IF parse_duration(arg, checks)[1] = "ok"
         THEN <<"ok", parse_duration(arg, checks)[2] * TicksPerSec>>
    ELSE parse_duration(arg, checks)

\* SET("key","value"[,"ttl"]) on the selected database (parser.rs:42-80):
\* the insert under the lock of the map; the persist is the next step
SetCmd(s, k, v, arg) ==
    /\ pc[s] = "idle"
    /\ IsSome(current_db_instance[s])
    /\ DataLockFree(current_db_instance[s].data)
    /\ \E checks \in BOOLEAN :
       LET ttl == SetTtl(arg, checks)
           inst == current_db_instance[s]
           entry == ValueWithExpiryNew(v, ttl[2], now)
       IN IF ttl[1] = "err"
          THEN /\ event' = [Ev(s, "SET", inst.name, k, ttl[2], "", NoExpiry) EXCEPT !.arg = arg]
               /\ UNCHANGED <<all_dbs, heap, pc, current_db_instance, db_instance, written>>
          ELSE IF ttl[1] = "panic" \/ (ttl[2] # NoExpiry /\ InstantAddOverflows(now, ttl[2]))
          THEN /\ TaskPanics(s, FALSE)
               /\ event' = [Ev(s, "SET", inst.name, k, "panic", "", NoExpiry) EXCEPT !.arg = arg]
          ELSE /\ pc' = [pc EXCEPT ![s] = "persist"]
               /\ Keep([heap EXCEPT ![inst.data] = MapInsert(@, k, entry)], MapInsert(written, <<inst.name, k>>,
                                   [value |-> v, at |-> now, ttl |-> ttl[2], data |-> inst.data]))
               /\ event' = [Ev(s, "SET", inst.name, k, "OK", v, entry.expires_at) EXCEPT !.arg = arg]
    /\ UNCHANGED <<guards, now, files, db_name, exists_in_memory, auth_attempts, cleaner>>

DropDbMutForgotten(g) == g

\* drop(db) between the removal of the expired record and persist
\* (parser.rs:93): the guard taken at parser.rs:88 is released
DropDb(g) == g \ {"data"}

GetCmdMutAbsentFails(s, k) ==
    /\ pc[s] = "idle"
    /\ IsSome(current_db_instance[s])
    /\ DataLockFree(current_db_instance[s].data)
    /\ LET inst == current_db_instance[s]
           db == heap[inst.data]
       IN IF k \notin DOMAIN db
          THEN /\ pc' = [pc EXCEPT ![s] = "closed"]
               /\ event' = Ev(s, "GET", inst.name, k, "", "", NoExpiry)
               /\ UNCHANGED <<all_dbs, heap, current_db_instance, db_instance, written, guards>>
          ELSE IF ~IsExpired(db[k], now)
          THEN /\ event' = Ev(s, "GET", inst.name, k, "value", db[k].value, db[k].expires_at)
               /\ UNCHANGED <<all_dbs, heap, pc, current_db_instance, db_instance, written, guards>>
          ELSE /\ pc' = [pc EXCEPT ![s] = "persist"]
               /\ Keep([heap EXCEPT ![inst.data] = MapRemove(@, k)], written)
               /\ guards' = [guards EXCEPT ![s] = DropDb(@ \cup {"data"})]
               /\ event' = Ev(s, "GET", inst.name, k, "Error: Key has expired and is deleted",
                              "", db[k].expires_at)
    /\ UNCHANGED <<now, files, db_name, exists_in_memory, auth_attempts, cleaner>>

\* GET("key") on the selected database (parser.rs:82-102): an expired record
\* is removed under the lock of the map and the persist is the next step
GetCmd(s, k) ==
    /\ pc[s] = "idle"
    /\ IsSome(current_db_instance[s])
    /\ DataLockFree(current_db_instance[s].data)
    /\ LET inst == current_db_instance[s]
           db == heap[inst.data]
       IN IF k \notin DOMAIN db
          THEN /\ event' = Ev(s, "GET", inst.name, k, "Error: Key not found", "", NoExpiry)
               /\ UNCHANGED <<all_dbs, heap, pc, current_db_instance, db_instance, written, guards>>
          ELSE IF ~IsExpired(db[k], now)
          THEN /\ event' = Ev(s, "GET", inst.name, k, "value", db[k].value, db[k].expires_at)
               /\ UNCHANGED <<all_dbs, heap, pc, current_db_instance, db_instance, written, guards>>
          ELSE /\ pc' = [pc EXCEPT ![s] = "persist"]
               /\ Keep([heap EXCEPT ![inst.data] = MapRemove(@, k)], written)
               /\ guards' = [guards EXCEPT ![s] = DropDb(@ \cup {"data"})]
               /\ event' = Ev(s, "GET", inst.name, k, "Error: Key has expired and is deleted",
                              "", db[k].expires_at)
    /\ UNCHANGED <<now, files, db_name, exists_in_memory, auth_attempts, cleaner>>

DelCmdMutAlwaysOk(s, k) ==
    /\ pc[s] = "idle"
    /\ IsSome(current_db_instance[s])
    /\ DataLockFree(current_db_instance[s].data)
    /\ LET inst == current_db_instance[s]
           db == heap[inst.data]
           w == [x \in DOMAIN written \ {<<inst.name, k>>} |-> written[x]]
       IN /\ pc' = [pc EXCEPT ![s] = "persist"]
          /\ Keep([heap EXCEPT ![inst.data] = MapRemove(@, k)], w)
          /\ event' = Ev(s, "DEL", inst.name, k, "OK", "", NoExpiry)
    /\ UNCHANGED <<guards, now, files, db_name, exists_in_memory, auth_attempts, cleaner>>

\* DEL("key") on the selected database (parser.rs:104-124)
DelCmd(s, k) ==
    /\ pc[s] = "idle"
    /\ IsSome(current_db_instance[s])
    /\ DataLockFree(current_db_instance[s].data)
    /\ LET inst == current_db_instance[s]
           db == heap[inst.data]
           w == [x \in DOMAIN written \ {<<inst.name, k>>} |-> written[x]]
       IN IF k \in DOMAIN db
          THEN /\ pc' = [pc EXCEPT ![s] = "persist"]
               /\ Keep([heap EXCEPT ![inst.data] = MapRemove(@, k)], w)
               /\ event' = Ev(s, "DEL", inst.name, k, "OK", "", db[k].expires_at)
          ELSE /\ Keep(heap, w)
               /\ event' = Ev(s, "DEL", inst.name, k, "Error: Key not found", "", NoExpiry)
               /\ UNCHANGED pc
    /\ UNCHANGED <<guards, now, files, db_name, exists_in_memory, auth_attempts, cleaner>>

\* DbInstance::persist (db.rs:156-160): the file is replaced, or the write
\* fails and the failure is logged
PersistFile(inst, ok) == IF ok THEN MapInsert(files, inst.name, save_to_file(inst, heap, now)) ELSE files

\* db_instance.persist() after SET, DEL and the eviction of GET
\* (parser.rs:75, 94, 117), then the answer is written
Persist(s, ok) ==
    /\ pc[s] = "persist"
    /\ DataLockFree(current_db_instance[s].data)
    /\ files' = PersistFile(current_db_instance[s], ok)
    /\ pc' = [pc EXCEPT ![s] = "idle"]
    /\ event' = Ev(s, "persist", current_db_instance[s].name, "", IF ok THEN "saved" ELSE "Failed to persist database", "", NoExpiry)
    /\ UNCHANGED <<guards, now, all_dbs, heap, current_db_instance, db_name, db_instance,
                   exists_in_memory, auth_attempts, cleaner, written>>

\* persist, lock by lock: save_to_file takes the lock of the map, builds the
\* document and starts to write the file (db.rs:107-145)
PersistStart(s, ok) ==
    /\ pc[s] = "persist"
    /\ DataLockFree(current_db_instance[s].data)
    /\ files' = PersistFile(current_db_instance[s], ok)
    /\ pc' = [pc EXCEPT ![s] = "persist_write"]
    /\ Lock(s, "data")
    /\ event' = Ev(s, "persist", current_db_instance[s].name, "", IF ok THEN "saved" ELSE "Failed to persist database", "", NoExpiry)
    /\ UNCHANGED <<now, all_dbs, heap, current_db_instance, db_name, db_instance,
                   exists_in_memory, auth_attempts, cleaner, written>>

\* the write returns and the guard is dropped with it (db.rs:145-154); the
\* answer of the command is written
PersistEnd(s) ==
    /\ pc[s] = "persist_write"
    /\ pc' = [pc EXCEPT ![s] = "idle"]
    /\ Unlock(s, "data")
    /\ event' = Ev(s, "persist", current_db_instance[s].name, "", "unlock", "", NoExpiry)
    /\ UNCHANGED <<now, all_dbs, heap, files, current_db_instance, db_name, db_instance,
                   exists_in_memory, auth_attempts, cleaner, written>>

\* any other line (main.rs:479-499, parser.rs:125-127)
OtherCmd(s) ==
    /\ pc[s] = "idle"
    /\ event' = Ev(s, "other", current_db_instance[s].name, "",
                   IF IsSome(current_db_instance[s]) THEN "Unknown command" ELSE "Unknown command.",
                   "", NoExpiry)
    /\ UNCHANGED <<guards, now, all_dbs, heap, files, pc, current_db_instance, db_name, db_instance,
                   exists_in_memory, auth_attempts, cleaner, written>>

\* ------------------------------------------------- the cleaner (cleaner.rs)
\* db_map.lock() at the start of a cycle (cleaner.rs:13-18)
CleanerLock ==
    /\ cleaner.pc = "sleep"
    /\ CatalogLockFree
    /\ cleaner' = IF DOMAIN all_dbs = {} THEN cleaner
                  ELSE [pc |-> "scan", todo |-> DOMAIN all_dbs, cur |-> ""]
    /\ IF DOMAIN all_dbs = {} THEN UNCHANGED guards ELSE Lock("cleaner", "catalog")
    /\ event' = Ev("cleaner", "cycle", "", "", "", "", NoExpiry)
    /\ UNCHANGED <<now, all_dbs, heap, files, pc, current_db_instance, db_name, db_instance,
                   exists_in_memory, auth_attempts, written>>

expired_keysMutAll(db, t) == DOMAIN db

\* the keys the scan collects (cleaner.rs:22-27)
expired_keys(db, t) == {k \in DOMAIN db : IsExpired(db[k], t)}

CleanerScanMutNoPersist(n) ==
    /\ cleaner.pc = "scan"
    /\ n \in cleaner.todo
    /\ DataLockFree(all_dbs[n].data)
    /\ LET id == all_dbs[n].data
           gone == expired_keys(heap[id], now)
       IN /\ heap' = [heap EXCEPT ![id] = [k \in DOMAIN @ \ gone |-> @[k]]]
          /\ event' = Ev("cleaner", "scan", n, "", IF gone = {} THEN "" ELSE "Cleaned expired keys", "", NoExpiry)
    /\ cleaner' = IF cleaner.todo = {n} THEN [pc |-> "sleep", todo |-> {}, cur |-> ""]
                  ELSE [cleaner EXCEPT !.todo = @ \ {n}]
    /\ IF cleaner.todo = {n} THEN Unlock("cleaner", "catalog") ELSE UNCHANGED guards
    /\ UNCHANGED <<now, all_dbs, files, pc, current_db_instance, db_name, db_instance,
                   exists_in_memory, auth_attempts, written>>

\* the scan-and-remove step of one database (cleaner.rs:18-43)
CleanerScan(n) ==
    /\ cleaner.pc = "scan"
    /\ n \in cleaner.todo
    /\ DataLockFree(all_dbs[n].data)
    /\ LET id == all_dbs[n].data
           gone == expired_keys(heap[id], now)
       IN /\ heap' = [heap EXCEPT ![id] = [k \in DOMAIN @ \ gone |-> @[k]]]
          /\ event' = Ev("cleaner", "scan", n, "", IF gone = {} THEN "" ELSE "Cleaned expired keys", "", NoExpiry)
    /\ cleaner' = [cleaner EXCEPT !.pc = "persist", !.cur = n]
    /\ UNCHANGED <<guards, now, all_dbs, files, pc, current_db_instance, db_name, db_instance,
                   exists_in_memory, auth_attempts, written>>

\* db_instance.persist() (cleaner.rs:44), then the next database or the end
\* of the cycle and the sleep (cleaner.rs:45-50)
CleanerPersist(ok) ==
    /\ cleaner.pc = "persist"
    /\ DataLockFree(all_dbs[cleaner.cur].data)
    /\ files' = PersistFile(all_dbs[cleaner.cur], ok)
    /\ cleaner' = IF cleaner.todo = {cleaner.cur} THEN [pc |-> "sleep", todo |-> {}, cur |-> ""]
                  ELSE [pc |-> "scan", todo |-> cleaner.todo \ {cleaner.cur}, cur |-> ""]
    /\ event' = Ev("cleaner", "persist", cleaner.cur, "", IF ok THEN "saved" ELSE "Failed to persist database", "", NoExpiry)
    /\ IF cleaner.todo = {cleaner.cur} THEN Unlock("cleaner", "catalog") ELSE UNCHANGED guards
    /\ UNCHANGED <<now, all_dbs, heap, pc, current_db_instance, db_name, db_instance,
                   exists_in_memory, auth_attempts, written>>

\* the persist of the cleaner, lock by lock: save_to_file takes the lock of
\* the map, builds the document and starts to write (db.rs:107-145)
CleanerSaveStart(ok) ==
    /\ cleaner.pc = "persist"
    /\ DataLockFree(all_dbs[cleaner.cur].data)
    /\ files' = PersistFile(all_dbs[cleaner.cur], ok)
    /\ cleaner' = [cleaner EXCEPT !.pc = "write"]
    /\ event' = Ev("cleaner", "persist", cleaner.cur, "", IF ok THEN "saved" ELSE "Failed to persist database", "", NoExpiry)
    /\ Lock("cleaner", "data")
    /\ UNCHANGED <<now, all_dbs, heap, pc, current_db_instance, db_name, db_instance,
                   exists_in_memory, auth_attempts, written>>

\* the write returns and the guard of the map is dropped (db.rs:145-154);
\* the next database, or the end of the cycle (cleaner.rs:45-50)
CleanerSaveEnd ==
    /\ cleaner.pc = "write"
    /\ cleaner' = IF cleaner.todo = {cleaner.cur} THEN [pc |-> "sleep", todo |-> {}, cur |-> ""]
                  ELSE [pc |-> "scan", todo |-> cleaner.todo \ {cleaner.cur}, cur |-> ""]
    /\ guards' = [guards EXCEPT !["cleaner"] =
                      IF cleaner.todo = {cleaner.cur} THEN {} ELSE {"catalog"}]
    /\ event' = Ev("cleaner", "persist", cleaner.cur, "", "unlock", "", NoExpiry)
    /\ UNCHANGED <<now, all_dbs, heap, files, pc, current_db_instance, db_name, db_instance,
                   exists_in_memory, auth_attempts, written>>

\* ------------------------------------------------------------------ Next
\* the steps of the cleaner and of the file-backed record commands
DataNext(ttls, vals) ==
    \/ \E s \in Sessions, k \in Keys, v \in vals, arg \in ttls : SetCmd(s, k, v, arg)
    \/ \E s \in Sessions, k \in Keys : GetCmd(s, k)
    \/ \E s \in Sessions, k \in Keys : DelCmd(s, k)
    \/ \E s \in Sessions : Persist(s, TRUE)
    \/ CleanerLock
    \/ \E n \in Names : CleanerScan(n)
    \/ CleanerPersist(TRUE)

\* Clients that never ask for authentication: every database is open;
\* records are written without deadline.
Next ==
    \/ \E s \in Sessions : Accept(s)
    \/ \E s \in Sessions : Disconnect(s)
    \/ \E s \in Sessions, n \in Names : CreateCmd(s, n)
    \/ \E s \in Sessions, reply \in NoReplies : CreateChoice(s, reply, TRUE)
    \/ \E s \in Sessions : CreateInsert(s)
    \/ \E s \in Sessions, n \in Names : UseCmd(s, n)
    \/ \E s \in Sessions, n \in Names \cup {AbsentName} : DropCmd(s, n)
    \/ \E s \in Sessions : DropLoad(s)
    \/ \E s \in Sessions : DropDelete(s, TRUE)
    \/ \E s \in Sessions : DropReinsert(s)
    \/ \E s \in Sessions : OtherCmd(s)
    \/ DataNext({NoTTLArg}, Values)

Spec == Init /\ [][Next]_vars

\* Clients that always ask for authentication: every database has a
\* username and a password hash; records are written without deadline.
NextAuth ==
    \/ \E s \in Sessions : Accept(s)
    \/ \E s \in Sessions : Disconnect(s)
    \/ \E s \in Sessions, n \in Names : CreateCmd(s, n)
    \/ \E s \in Sessions, reply \in YesReplies : CreateChoice(s, reply, TRUE)
    \/ \E s \in Sessions, u \in CreateUsers, p \in CreatePasswords : CreateCred(s, u, p, TRUE)
    \/ \E s \in Sessions : CreateInsert(s)
    \/ \E s \in Sessions, n \in Names : UseCmd(s, n)
    \/ \E s \in Sessions, u \in Users, p \in Passwords : UseAuth(s, u, p)
    \/ \E s \in Sessions : UseAuthIoError(s)
    \/ \E s \in Sessions, n \in Names : DropCmd(s, n)
    \/ \E s \in Sessions : DropLoad(s)
    \/ \E s \in Sessions, u \in Users, p \in Passwords : DropAuth(s, u, p)
    \/ \E s \in Sessions : DropAuthIoError(s)
    \/ \E s \in Sessions : DropDelete(s, TRUE)
    \/ \E s \in Sessions : DropReinsert(s)
    \/ DataNext({NoTTLArg}, OneValue)

SpecAuth == Init /\ [][NextAuth]_vars

\* the snapshots a server may find in dbs/ when it starts: written by an
\* earlier run for an open database, with or without a record about to expire
InitDocs ==
    {[data |-> d, require_auth |-> FALSE, username |-> NoUser, password |-> NoPassword] :
        d \in {<<>>} \cup {[k \in {key} |-> [value |-> v, expires_at |-> 1]] : key \in Keys, v \in OneValue}}

\* main.rs:19-36 over a dbs/ directory that is empty or holds one snapshot
InitTtl ==
    /\ now = 0
    /\ all_dbs = <<>>
    /\ heap = <<>>
    /\ files \in {<<>>} \cup {[n \in {name} |-> doc] : name \in Names, doc \in InitDocs}
    /\ pc = [s \in Sessions |-> "closed"]
    /\ current_db_instance = [s \in Sessions |-> NoDb]
    /\ db_name = [s \in Sessions |-> ""]
    /\ db_instance = [s \in Sessions |-> NoDb]
    /\ exists_in_memory = [s \in Sessions |-> FALSE]
    /\ auth_attempts = [s \in Sessions |-> 0]
    /\ cleaner = [pc |-> "sleep", todo |-> {}, cur |-> ""]
    /\ guards = [task \in Tasks |-> {}]
    /\ written = <<>>
    /\ event = Ev("", "init", "", "", "", "", NoExpiry)

\* Open databases that are created or loaded and never dropped; the record
\* commands run with deadlines against a moving clock.
NextTtl ==
    \/ Tick
    \/ \E s \in Sessions : Accept(s)
    \/ \E s \in Sessions : Disconnect(s)
    \/ \E s \in Sessions, n \in Names : CreateCmd(s, n)
    \/ \E s \in Sessions, reply \in NoReplies : CreateChoice(s, reply, TRUE)
    \/ \E s \in Sessions : CreateInsert(s)
    \/ \E s \in Sessions, n \in Names : UseCmd(s, n)
    \/ DataNext(TTLArgs, OneValue)

SpecTtl == InitTtl /\ [][NextTtl]_vars


\* Open databases on a file system that may refuse a write: every save, the
\* first one of create included, succeeds or fails.
NextIo ==
    \/ \E s \in Sessions : Accept(s)
    \/ \E s \in Sessions : Disconnect(s)
    \/ \E s \in Sessions, n \in Names : CreateCmd(s, n)
    \/ \E s \in Sessions, reply \in NoReplies, ok \in BOOLEAN : CreateChoice(s, reply, ok)
    \/ \E s \in Sessions : CreateInsert(s)
    \/ \E s \in Sessions, n \in Names : UseCmd(s, n)
    \/ \E s \in Sessions, k \in Keys, v \in OneValue : SetCmd(s, k, v, NoTTLArg)
    \/ \E s \in Sessions, k \in Keys : GetCmd(s, k)
    \/ \E s \in Sessions, k \in Keys : DelCmd(s, k)
    \/ \E s \in Sessions, ok \in BOOLEAN : Persist(s, ok)
    \/ CleanerLock
    \/ \E n \in Names : CleanerScan(n)
    \/ \E ok \in BOOLEAN : CleanerPersist(ok)

SpecIo == Init /\ [][NextIo]_vars


\* the snapshots an earlier run may have left: open or with credentials, empty
\* or with one record that has no deadline, no time left or one second left
RestartConfigs == {<<FALSE, NoUser, NoPassword>>} \cup
                  {<<TRUE, u, Hash(p)>> : u \in CreateUsers, p \in CreatePasswords}
RestartData ==
    {<<>>} \cup {[k \in {key} |-> [value |-> v, expires_at |-> e]] :
                    key \in Keys, v \in OneValue, e \in {NoExpiry, 0, 1}}
RestartDocs ==
    {[data |-> d, require_auth |-> c[1], username |-> c[2], password |-> c[3]] :
        d \in RestartData, c \in RestartConfigs}

\* main.rs:19-36 over a dbs/ directory that holds a snapshot of every name
InitRestart ==
    /\ now = 0
    /\ all_dbs = <<>>
    /\ heap = <<>>
    /\ files \in [Names -> RestartDocs]
    /\ pc = [s \in Sessions |-> "closed"]
    /\ current_db_instance = [s \in Sessions |-> NoDb]
    /\ db_name = [s \in Sessions |-> ""]
    /\ db_instance = [s \in Sessions |-> NoDb]
    /\ exists_in_memory = [s \in Sessions |-> FALSE]
    /\ auth_attempts = [s \in Sessions |-> 0]
    /\ cleaner = [pc |-> "sleep", todo |-> {}, cur |-> ""]
    /\ guards = [task \in Tasks |-> {}]
    /\ written = <<>>
    /\ event = Ev("", "init", "", "", "", "", NoExpiry)

\* the process ends and main starts again (main.rs:19-36): the catalog, the
\* maps and the connections are gone, the files and the clock remain
Restart ==
    /\ all_dbs # <<>>
    /\ all_dbs' = <<>>
    /\ heap' = <<>>
    /\ pc' = [s \in Sessions |-> "closed"]
    /\ current_db_instance' = [s \in Sessions |-> NoDb]
    /\ db_name' = [s \in Sessions |-> ""]
    /\ db_instance' = [s \in Sessions |-> NoDb]
    /\ exists_in_memory' = [s \in Sessions |-> FALSE]
    /\ auth_attempts' = [s \in Sessions |-> 0]
    /\ cleaner' = [pc |-> "sleep", todo |-> {}, cur |-> ""]
    /\ guards' = [task \in Tasks |-> {}]
    /\ written' = [x \in DOMAIN written |-> [written[x] EXCEPT !.data = 0]]
    /\ event' = Ev("", "restart", "", "", "", "", NoExpiry)
    /\ UNCHANGED <<now, files>>

\* Databases that exist on disk are loaded, written with and without
\* deadline, saved, and loaded again after a restart.
NextRestart ==
    \/ Tick
    \/ Restart
    \/ \E s \in Sessions : Accept(s)
    \/ \E s \in Sessions : Disconnect(s)
    \/ \E s \in Sessions, n \in Names : UseCmd(s, n)
    \/ \E s \in Sessions, u \in CreateUsers, p \in CreatePasswords : UseAuth(s, u, p)
    \/ DataNext(TTLArgs, OneValue)

SpecRestart == InitRestart /\ [][NextRestart]_vars


\* The same server with every Mutex::lock and every guard that stays in
\* scope across a file operation as a step of its own: use and persist are
\* taken lock by lock, over databases found on disk, open or with
\* credentials, created and dropped.
NextLock ==
    \/ Tick
    \/ \E s \in Sessions : Accept(s)
    \/ \E s \in Sessions : Disconnect(s)
    \/ \E s \in Sessions, n \in Names : CreateCmd(s, n)
    \/ \E s \in Sessions, reply \in NoReplies : CreateChoice(s, reply, TRUE)
    \/ \E s \in Sessions : CreateInsert(s)
    \/ \E s \in Sessions, n \in Names : UseLock(s, n)
    \/ \E s \in Sessions : UseLookup(s)
    \/ \E s \in Sessions : UseLoad(s)
    \/ \E s \in Sessions, u \in CreateUsers, p \in CreatePasswords : UseAuth(s, u, p)
    \/ \E s \in Sessions, n \in Names : DropCmd(s, n)
    \/ \E s \in Sessions : DropLoad(s)
    \/ \E s \in Sessions, u \in CreateUsers, p \in CreatePasswords : DropAuth(s, u, p)
    \/ \E s \in Sessions : DropDelete(s, TRUE)
    \/ \E s \in Sessions : DropReinsert(s)
    \/ \E s \in Sessions, k \in Keys, v \in OneValue : SetCmd(s, k, v, NoTTLArg)
    \/ \E s \in Sessions, k \in Keys : GetCmd(s, k)
    \/ \E s \in Sessions, k \in Keys : DelCmd(s, k)
    \/ \E s \in Sessions : PersistStart(s, TRUE)
    \/ \E s \in Sessions : PersistEnd(s)
    \/ CleanerLock
    \/ \E n \in Names : CleanerScan(n)
    \/ CleanerSaveStart(TRUE)
    \/ CleanerSaveEnd

\* main.rs:19-36 over snapshots whose record has no time left: it expires
\* with the first tick after the load
InitLock ==
    /\ InitRestart
    /\ \A n \in Names : \E k \in DOMAIN files[n].data : files[n].data[k].expires_at = 0

SpecLock == InitLock /\ [][NextLock]_vars




\* Clients of both kinds: a database is created open or with credentials,
\* selected, written, dropped and created again.
NextMixed ==
    \/ \E s \in Sessions : Accept(s)
    \/ \E s \in Sessions : Disconnect(s)
    \/ \E s \in Sessions, n \in Names : CreateCmd(s, n)
    \/ \E s \in Sessions, reply \in ChoiceReplies : CreateChoice(s, reply, TRUE)
    \/ \E s \in Sessions, u \in CreateUsers, p \in CreatePasswords : CreateCred(s, u, p, TRUE)
    \/ \E s \in Sessions : CreateInsert(s)
    \/ \E s \in Sessions, n \in Names : UseCmd(s, n)
    \/ \E s \in Sessions, u \in CreateUsers, p \in CreatePasswords : UseAuth(s, u, p)
    \/ \E s \in Sessions, n \in Names : DropCmd(s, n)
    \/ \E s \in Sessions : DropLoad(s)
    \/ \E s \in Sessions, u \in CreateUsers, p \in CreatePasswords : DropAuth(s, u, p)
    \/ \E s \in Sessions : DropDelete(s, TRUE)
    \/ \E s \in Sessions : DropReinsert(s)
    \/ DataNext({NoTTLArg}, OneValue)

SpecMixed == Init /\ [][NextMixed]_vars

\* the keys of the snapshots the cleaner is followed on
SweepKeys == {"k1", "k2", "k3"}

\* snapshots of an open database with a record under each key: without
\* deadline, with no time left or with one second left
SweepDocs ==
    {[data |-> d, require_auth |-> FALSE, username |-> NoUser, password |-> NoPassword] :
        d \in [SweepKeys -> {[value |-> v, expires_at |-> e] : v \in OneValue, e \in {NoExpiry, 0, 1}}]}

\* main.rs:19-36 over a dbs/ directory that holds such a snapshot of every name
InitSweep ==
    /\ now = 0
    /\ all_dbs = <<>>
    /\ heap = <<>>
    /\ files \in [Names -> SweepDocs]
    /\ pc = [s \in Sessions |-> "closed"]
    /\ current_db_instance = [s \in Sessions |-> NoDb]
    /\ db_name = [s \in Sessions |-> ""]
    /\ db_instance = [s \in Sessions |-> NoDb]
    /\ exists_in_memory = [s \in Sessions |-> FALSE]
    /\ auth_attempts = [s \in Sessions |-> 0]
    /\ cleaner = [pc |-> "sleep", todo |-> {}, cur |-> ""]
    /\ guards = [task \in Tasks |-> {}]
    /\ written = <<>>
    /\ event = Ev("", "init", "", "", "", "", NoExpiry)

\* Databases with several records are loaded and read while their records
\* expire; the cleaner and the sessions remove what has expired.
NextSweep ==
    \/ Tick
    \/ \E s \in Sessions : Accept(s)
    \/ \E s \in Sessions : Disconnect(s)
    \/ \E s \in Sessions, n \in Names : UseCmd(s, n)
    \/ \E s \in Sessions, k \in SweepKeys : GetCmd(s, k)
    \/ \E s \in Sessions, k \in SweepKeys : DelCmd(s, k)
    \/ \E s \in Sessions : Persist(s, TRUE)
    \/ CleanerLock
    \/ \E n \in Names : CleanerScan(n)
    \/ CleanerPersist(TRUE)

SpecSweep == InitSweep /\ [][NextSweep]_vars


\* dbs.lock().unwrap() of a create, use or drop on the poisoned mutex
\* (main.rs:168, 192, 337, 421, 438): the task of the connection panics
LockPanic(s) ==
    /\ Poisoned
    /\ pc[s] \in {"idle", "create_insert", "drop_reinsert"}
    /\ TaskPanics(s, FALSE)
    /\ ResetLocals(s)
    /\ event' = Ev(s, "lock", "", "", "panic", "", NoExpiry)
    /\ UNCHANGED <<guards, now, files, cleaner>>

\* db_map.lock().unwrap() of the next cycle on the poisoned mutex
\* (cleaner.rs:15): the task of the cleaner panics and is gone
CleanerPanic ==
    /\ Poisoned
    /\ cleaner.pc = "sleep"
    /\ cleaner' = [pc |-> "dead", todo |-> {}, cur |-> ""]
    /\ event' = Ev("cleaner", "cycle", "", "", "panic", "", NoExpiry)
    /\ UNCHANGED <<guards, now, all_dbs, heap, files, pc, current_db_instance, db_name, db_instance,
                   exists_in_memory, auth_attempts, written>>

\* the third arguments of SET at the limits: a number past u64::MAX, a
\* number of seconds past and at the last second of an Instant, the first
\* numbers of minutes and of days whose seconds leave the u64, next to a
\* small TTL, a unit that is none and no number
LimitTTLArgs ==
    {<<1, "s">>, <<1, "m">>, <<1, "h">>, <<-1, "s">>,
     <<U64_MAX + 1, "s">>, <<U64_MAX, "s">>, <<I64_MAX, "s">>, <<I64_MAX - 1, "s">>,
     <<U64_MAX \div 60 + 1, "m">>, <<U64_MAX \div (60 * 60 * 24) + 1, "d">>}

\* a snapshot of an open database left by an earlier run: its record was
\* set with the longest TTL an Instant could take then
LongestDoc ==
    [data |-> [k \in Keys |-> [value |-> "v1", expires_at |-> I64_MAX]],
     require_auth |-> FALSE, username |-> NoUser, password |-> NoPassword]

\* snapshots of an open database whose record has no deadline, no time left
\* or one second left
ShortDocs ==
    {[data |-> [k \in Keys |-> [value |-> "v1", expires_at |-> e]],
      require_auth |-> FALSE, username |-> NoUser, password |-> NoPassword] : e \in {NoExpiry, 0, 1}}

\* main.rs:19-36 one second into the clock, over a dbs/ directory with such
\* a snapshot of every name and the snapshot with the longest TTL
InitLimits ==
    /\ now = TicksPerSec
    /\ all_dbs = <<>>
    /\ heap = <<>>
    /\ files \in {[n \in Names \cup {AbsentName} |-> IF n = AbsentName THEN LongestDoc ELSE d] : d \in ShortDocs}
    /\ pc = [s \in Sessions |-> "closed"]
    /\ current_db_instance = [s \in Sessions |-> NoDb]
    /\ db_name = [s \in Sessions |-> ""]
    /\ db_instance = [s \in Sessions |-> NoDb]
    /\ exists_in_memory = [s \in Sessions |-> FALSE]
    /\ auth_attempts = [s \in Sessions |-> 0]
    /\ cleaner = [pc |-> "sleep", todo |-> {}, cur |-> ""]
    /\ guards = [task \in Tasks |-> {}]
    /\ written = <<>>
    /\ event = Ev("", "init", "", "", "", "", NoExpiry)

\* Clients set records with TTLs at the limits of the arithmetic and select
\* databases whose snapshots hold such records; a panic ends the task it
\* happens in.
NextLimits ==
    \/ Tick
    \/ \E s \in Sessions : Accept(s)
    \/ \E s \in Sessions : Disconnect(s)
    \/ \E s \in Sessions, n \in Names \cup {AbsentName} : UseCmd(s, n)
    \/ \E s \in Sessions, k \in Keys, v \in OneValue, arg \in LimitTTLArgs : SetCmd(s, k, v, arg)
    \/ \E s \in Sessions, k \in Keys : GetCmd(s, k)
    \/ \E s \in Sessions : Persist(s, TRUE)
    \/ CleanerLock
    \/ \E n \in Names : CleanerScan(n)
    \/ CleanerPersist(TRUE)
    \/ \E s \in Sessions : LockPanic(s)
    \/ CleanerPanic

SpecLimits == InitLimits /\ [][NextLimits]_vars

\* the cleaner is a spawned task that loops for ever (cleaner.rs:11-50) and
\* the runtime schedules every task that can run: each of its steps is
\* taken once it stays possible
SpecLimitsFair ==
    /\ SpecLimits
    /\ WF_vars(CleanerLock)
    /\ WF_vars(\E n \in Names : CleanerScan(n))
    /\ WF_vars(CleanerPersist(TRUE))
    /\ WF_vars(CleanerPanic)


\* ---------------------------------------------------------------- claims
\* the database name and key of the last step
ReadKey == <<event.name, event.key>>

\* C1: GET never returns the value of a record whose expires_at is strictly
\* earlier than the time of the read.
C1_NoExpiredRead ==
    (event.op = "GET" /\ event.msg = "value") => (event.exp = NoExpiry \/ ~(event.exp < now))

\* C1 witness: a GET met a record that was still in the map after its
\* deadline and did not answer with the value
C1_Witness ==
    event.op = "GET" /\ event.exp # NoExpiry /\ event.exp < now /\ event.msg # "value"

\* C2: a key set at time t with TTL d, not overwritten or deleted since, is
\* read on that database as its value at every time before t + d and as
\* expired or not found at every time from t + d on, t + d itself included,
\* whichever session reads and whether or not the cleaner has run.
C2_TtlRead ==
    (event.op = "GET" /\ ReadKey \in DOMAIN written /\ written[ReadKey].ttl # NoExpiry)
        => LET w == written[ReadKey] IN
           /\ now < w.at + w.ttl => (event.msg = "value" /\ event.val = w.value)
           /\ now >= w.at + w.ttl => event.msg # "value"


\* C3: a key set without TTL is read as the written value by every later
\* GET on that database name, until it is deleted or overwritten or the
\* database is dropped.
C3_PermanentRead ==
    (event.op = "GET" /\ ReadKey \in DOMAIN written /\ written[ReadKey].ttl = NoExpiry)
        => (event.msg = "value" /\ event.val = written[ReadKey].value)

\* C4: no drop of a database succeeds while a session has it selected.
C4_NoDropWhileSelected ==
    event.msg = "Database deleted successfully"
        => \A t \in Sessions : current_db_instance[t].name # event.name

\* C5: per database name there is one Record Store: the sessions that have
\* the name selected and the catalog entry of the name hold the same map.
C5_SingleCopy ==
    \A s \in Sessions :
        IsSome(current_db_instance[s]) =>
            /\ \A t \in Sessions :
                  current_db_instance[t].name = current_db_instance[s].name
                      => current_db_instance[t].data = current_db_instance[s].data
            /\ current_db_instance[s].name \in DOMAIN all_dbs
                  => all_dbs[current_db_instance[s].name].data = current_db_instance[s].data


\* the replies that tell a session its database is now selected
UsingReplies == {"Using database", "Authentication successful Using database"}

\* C6: a session becomes Selected on a database that requires authentication
\* only by a pass of the credential loop of use in which it gave the stored
\* username and a password that verifies against the stored hash.
C6_SelectOnlyWithCredentials ==
    [][\A s \in Sessions :
          (~IsSome(current_db_instance[s]) /\ IsSome(current_db_instance'[s])
              /\ current_db_instance'[s].require_auth)
          => /\ pc[s] = "use_auth"
             /\ event'.who = s
             /\ event'.op = "auth"
             /\ event'.key = current_db_instance'[s].username
             /\ Verify(event'.val, current_db_instance'[s].password) = "ok"]_vars

\* C6 witness: a session is Selected on a database that requires
\* authentication, right after its credentials were accepted
C6_Witness ==
    /\ event.msg = "Authentication successful Using database"
    /\ IsSome(current_db_instance[event.who])
    /\ current_db_instance[event.who].require_auth

\* C7: one use checks at most MAX_AUTH_ATTEMPTS credential pairs; when the
\* last of them fails the too-many-attempts message is sent and the session
\* ends, and it was never Selected.
C7_ThreeAttempts ==
    [][\A s \in Sessions :
          (pc[s] = "use_auth" /\ event'.who = s)
          => /\ auth_attempts[s] < MAX_AUTH_ATTEMPTS
             /\ ~IsSome(current_db_instance[s])
             /\ (auth_attempts[s] = MAX_AUTH_ATTEMPTS - 1 /\ ~IsSome(current_db_instance'[s]))
                   => /\ pc'[s] = "closed"
                      /\ event'.msg = "Too many failed authentication attempts. Disconnecting."]_vars

\* C7 witness: a session was disconnected for too many attempts
C7_Witness ==
    /\ event.msg = "Too many failed authentication attempts. Disconnecting."
    /\ pc[event.who] = "closed"
    /\ ~IsSome(current_db_instance[event.who])

\* C8: a create never replaces what exists: when DbInstance::new writes the
\* snapshot there is no file and no catalog entry of that name, and when the
\* instance is inserted the catalog has no entry of that name.
C8_CreateNeverReplaces ==
    [][\A s \in Sessions :
          /\ (event'.who = s /\ event'.op = "new" /\ pc'[s] = "create_insert")
                => (db_name[s] \notin DOMAIN files /\ db_name[s] \notin DOMAIN all_dbs)
          /\ (event'.who = s /\ event'.op = "created")
                => db_name[s] \notin DOMAIN all_dbs]_vars

\* C9: the selection of a session changes only by a successful use issued
\* while Unselected; a Selected session stays on its database until it
\* disconnects, and no other command selects a database.
C9_SelectionOneWay ==
    [][\A s \in Sessions :
          /\ (IsSome(current_db_instance[s]) /\ pc'[s] # "closed")
                => /\ [current_db_instance'[s] EXCEPT !.data = 0]
                        = [current_db_instance[s] EXCEPT !.data = 0]
                   /\ ~(event'.who = s /\ event'.msg \in UsingReplies)
          /\ (~IsSome(current_db_instance[s]) /\ IsSome(current_db_instance'[s]))
                => /\ event'.who = s
                   /\ event'.op \in {"use", "auth"}
                   /\ event'.msg \in UsingReplies
                   /\ current_db_instance'[s].name = event'.name]_vars

\* C9 witness: a Selected session was refused a second use
C9_Witness ==
    /\ event.msg = "Cannot use a different database. A database is already selected."
    /\ IsSome(current_db_instance[event.who])

\* C9 second witness state: a create succeeded and left the session Unselected
C9_WitnessCreate ==
    /\ event.msg = "Database created successfully"
    /\ ~IsSome(current_db_instance[event.who])

\* C10: drop of the database the session has selected is refused with the
\* currently-selected message; the session stays connected and Selected and
\* the catalog, the maps and the files are unchanged.
C10_DropSelectedRefused ==
    [][\A s \in Sessions :
          (pc[s] = "idle" /\ event'.who = s /\ event'.op = "drop"
              /\ IsSome(current_db_instance[s]) /\ current_db_instance[s].name = event'.name)
          => /\ event'.msg = "Cannot drop the currently selected database."
             /\ pc'[s] = "idle"
             /\ UNCHANGED <<all_dbs, heap, files, current_db_instance>>]_vars

\* C10 witness: the refusal was sent to a session that is still Selected
C10_Witness ==
    /\ event.msg = "Cannot drop the currently selected database."
    /\ pc[event.who] = "idle"
    /\ current_db_instance[event.who].name = event.name
    /\ event.name \in DOMAIN all_dbs
    /\ event.name \in DOMAIN files

\* C11: when a drop that took an instance out of the catalog is given up, the
\* catalog maps the name again to that instance, with its Record Store and
\* auth configuration, the snapshot file still exists and the session stays
\* connected.
C11_AbortReinserts ==
    [][\A s \in Sessions :
          (pc[s] = "drop_reinsert" /\ pc'[s] # "drop_reinsert")
          => /\ pc'[s] = "idle"
             /\ db_name[s] \in DOMAIN all_dbs'
             /\ [all_dbs'[db_name[s]] EXCEPT !.data = 0] = [db_instance[s] EXCEPT !.data = 0]
             /\ heap'[all_dbs'[db_name[s]].data] = heap[db_instance[s].data]
             /\ db_name[s] \in DOMAIN files']_vars


\* C12: every change of a Record Store (SET, a DEL that removes a key, the
\* eviction of an expired key by GET, a cleaner scan that removes keys) is
\* followed by persist of that database as the next step of the task that
\* made the change.
C12_MutationThenPersist ==
    [][/\ \A s \in Sessions :
            /\ (/\ event'.who = s
                /\ event'.op \in {"SET", "GET", "DEL"}
                /\ IsSome(current_db_instance[s])
                /\ \/ event'.op = "SET" /\ event'.msg = "OK"
                   \/ heap'[current_db_instance[s].data] # heap[current_db_instance[s].data])
               => pc'[s] = "persist"
            /\ (pc[s] = "persist" /\ event'.who = s)
               => (event'.op = "persist" /\ event'.name = current_db_instance[s].name)
       /\ (event'.who = "cleaner" /\ event'.op = "scan" /\ heap' # heap)
               => (cleaner'.pc = "persist" /\ cleaner'.cur = event'.name)
       /\ (cleaner.pc = "persist" /\ event'.who = "cleaner")
               => (event'.op = "persist" /\ event'.name = cleaner.cur)]_vars

\* C12 witness: a cleaner scan has removed expired keys and the persist of
\* that database is the step the cleaner takes next
C12_Witness ==
    /\ event.who = "cleaner"
    /\ event.op = "scan"
    /\ event.msg = "Cleaned expired keys"
    /\ cleaner.pc = "persist"
    /\ cleaner.cur = event.name


\* the answers of a save that failed
SaveFailures == {"Failed to persist database", "panic: Failed to save new database"}

\* C13: a failed snapshot write, the first save of create included, ends
\* neither the session nor the cleaner that made it and leaves the Record
\* Stores as they are.
C13_SaveFailureSwallowed ==
    [][(event'.op \in {"persist", "new"} /\ event'.msg \in SaveFailures)
          => /\ heap' = heap
             /\ \A s \in Sessions : event'.who = s => pc'[s] # "closed"
             /\ event'.who = "cleaner" => cleaner'.pc \in {"scan", "sleep"}]_vars


\* the time a record has left at time t: NoExpiry without deadline, nothing
\* once the deadline has passed
Remaining(rec, t) ==
    IF rec.expires_at = NoExpiry THEN NoExpiry
    ELSE IF rec.expires_at >= t THEN rec.expires_at - t ELSE 0

\* C14: an instance saved now and loaded at any later time comes back with
\* the same keys, values, require_auth, username and password hash; a key
\* without deadline has none, and a key with a deadline has left, at the
\* load, the whole seconds it had left at the save.
C14_RoundTrip ==
    \A n \in DOMAIN all_dbs : \A t \in now .. MaxTime :
        LET inst == all_dbs[n]
            db == heap[inst.data]
            doc == save_to_file(inst, heap, now)
            back == load_from_file(doc, n, inst.data)
            data == LoadData(doc, t)
        IN /\ DOMAIN data = DOMAIN db
           /\ back.require_auth = inst.require_auth
           /\ back.username = inst.username
           /\ back.password = inst.password
           /\ \A k \in DOMAIN db :
                 /\ data[k].value = db[k].value
                 /\ Remaining(data[k], t) =
                       IF db[k].expires_at = NoExpiry THEN NoExpiry
                       ELSE (Remaining(db[k], now) \div TicksPerSec) * TicksPerSec

\* C14 witness: after a restart a database with credentials was loaded from
\* the file that the last save of the earlier run wrote, and its record has
\* a deadline
C14_Witness ==
    /\ event.op = "auth"
    /\ event.msg = "Authentication successful Using database"
    /\ written = <<>>
    /\ now > 0
    /\ \E k \in DOMAIN heap[current_db_instance[event.who].data] :
          heap[current_db_instance[event.who].data][k].expires_at > now


\* C15: DEL of a key that is not in the Record Store answers not found and
\* changes neither the maps nor the files, and the session goes on; after
\* any DEL the key is not in the map, so this is also the answer of a DEL
\* that repeats a DEL.
C15_DelAbsent ==
    [][\A s \in Sessions :
          (event'.who = s /\ event'.op = "DEL" /\ IsSome(current_db_instance[s]))
          => /\ event'.key \notin DOMAIN heap'[current_db_instance[s].data]
             /\ event'.key \notin DOMAIN heap[current_db_instance[s].data]
                   => /\ event'.msg = "Error: Key not found"
                      /\ pc'[s] = "idle"
                      /\ heap' = heap
                      /\ files' = files]_vars

\* C15 witness: a DEL was answered not found by a session that stays
\* connected, on a database whose snapshot was written without the key
C15_Witness ==
    /\ event.op = "DEL"
    /\ event.msg = "Error: Key not found"
    /\ pc[event.who] = "idle"
    /\ event.name \in DOMAIN files
    /\ event.key \notin DOMAIN files[event.name].data
    /\ event.key \notin DOMAIN heap[current_db_instance[event.who].data]


\* the places where a task reads, writes or deletes a snapshot file: the
\* load of use, the load and the remove_file of drop, the write of
\* save_to_file in a session and in the cleaner
DiskIo(task) ==
    IF task = "cleaner" THEN cleaner.pc = "write"
    ELSE pc[task] \in {"use_load", "drop_load", "drop_delete", "persist_write"}

\* C16: a task that loads, saves or deletes a snapshot file does not hold the
\* lock of the catalog while it does.
C16_NoCatalogLockInDiskIo ==
    \A task \in Tasks : DiskIo(task) => CatalogLock \notin HeldBy(task)


\* the session reads a line or has just written one: the wait for a command
\* and the prompts of create, use and drop, each entered by the write of the
\* answer or of the prompt
AtTheSocket(s) == pc[s] \in {"idle", "create_choice", "create_cred", "use_auth", "drop_auth"}

\* C17: a session that waits for a line from its connection, or has written
\* one, holds neither the lock of the catalog nor the lock of a map, so no
\* lock another task asks for is held by a session at a prompt.
C17_NoLockAtTheSocket ==
    \A s \in Sessions : AtTheSocket(s) => guards[s] = {} /\ HeldBy(s) = {}

\* C17 witness: a session waits at the username prompt of use, reached
\* through the locked lookup, while the cleaner, in the middle of a cycle,
\* has just written a snapshot with both locks held
C17_Witness ==
    \E s \in Sessions :
        /\ pc[s] = "use_auth"
        /\ event.who = "cleaner"
        /\ event.op = "persist"
        /\ HeldBy("cleaner") = {CatalogLock, DataLock(StoreOf("cleaner"))}


\* the write of a snapshot file is in progress in save_to_file
FileWrite(task) ==
    IF task = "cleaner" THEN cleaner.pc = "write" ELSE pc[task] = "persist_write"

\* C18: while a task writes a snapshot file it does not hold the lock of the
\* map it saves: save has released the lock before the write starts, and the
\* cleaner holds the lock of a map only for its scan-and-remove step.
C18_NoDataLockInFileWrite ==
    \A task \in Tasks : FileWrite(task) => DataLock(StoreOf(task)) \notin HeldBy(task)


\* the locks a task asks for in its next step with guards possibly in scope:
\* save_to_file asks for the lock of the map (db.rs:107), the insertions of
\* create and of an aborted drop for the catalog (main.rs:168, 421, 438), the
\* cleaner for the lock of the map it scans next (cleaner.rs:20)
Wants(task) ==
    IF task = "cleaner"
    THEN (IF cleaner.pc = "scan" THEN {DataLock(all_dbs[n].data) : n \in cleaner.todo}
          ELSE IF cleaner.pc = "persist" THEN {DataLock(StoreOf(task))}
          ELSE {})
    ELSE (IF pc[task] = "persist" THEN {DataLock(StoreOf(task))}
          ELSE IF pc[task] \in {"create_insert", "drop_reinsert"} THEN {CatalogLock}
          ELSE {})

\* task a waits for a lock that task b holds
WaitsFor(a, b) == Wants(a) \cap HeldBy(b) # {}

\* every task of the group waits for a task of the group: a finite group
\* is closed in this way exactly when it contains a cycle of waits
WaitCycle(group) == \A a \in group : \E b \in group : WaitsFor(a, b)

\* C19: no task asks for a lock it holds, and no tasks wait for each other
\* in a cycle over the lock of the catalog and the locks of the maps.
C19_NoWaitCycle ==
    /\ \A task \in Tasks : Wants(task) \cap HeldBy(task) = {}
    /\ \A group \in SUBSET Tasks : group # {} => ~WaitCycle(group)

\* C19 witness: a GET has just evicted an expired record and its session is
\* about to persist, while the cleaner, with the catalog locked, has scanned
\* the same map and is about to persist it: both ask for the same lock
C19_Witness ==
    \E s \in Sessions :
        /\ event.who = s
        /\ event.op = "GET"
        /\ event.msg = "Error: Key has expired and is deleted"
        /\ pc[s] = "persist"
        /\ cleaner.pc = "persist"
        /\ CatalogLock \in HeldBy("cleaner")
        /\ Wants(s) = Wants("cleaner")


\* C20: a task that holds the lock of a map does not hold the lock of the
\* catalog: the lock of a map is taken only once the catalog is released.
C20_LockOrdering ==
    \A task \in Tasks : "data" \in guards[task] => CatalogLock \notin HeldBy(task)


\* the deadline of a record lies before t
InThePast(rec, t) == rec.expires_at # NoExpiry /\ rec.expires_at < t

\* C21: a cycle of the cleaner starts with every database of the catalog to
\* visit and ends when none is left; the scan-and-remove step of a database
\* removes exactly the records whose deadline lies in the past: none that
\* remains has one, and every other record, with or without deadline, is
\* still there with its value and its deadline.
C21_SweepExact ==
    [][/\ (cleaner.pc = "sleep" /\ cleaner'.pc # "sleep") => cleaner'.todo = DOMAIN all_dbs
       /\ (cleaner.pc # "sleep" /\ cleaner'.pc = "sleep") => cleaner.todo = {cleaner.cur}
       /\ (cleaner.pc = "scan" /\ cleaner'.pc = "persist")
            => LET old == heap[all_dbs[cleaner'.cur].data]
                   new == heap'[all_dbs[cleaner'.cur].data]
               IN /\ cleaner'.cur \in cleaner.todo
                  /\ DOMAIN new \subseteq DOMAIN old
                  /\ \A k \in DOMAIN new : ~InThePast(new[k], now)
                  /\ \A k \in DOMAIN old :
                        IF InThePast(old[k], now) THEN k \notin DOMAIN new
                        ELSE k \in DOMAIN new /\ new[k] = old[k]]_vars

\* C21 witness: a scan has just removed a record that the snapshot still
\* holds, and has left a record without deadline and a record whose
\* deadline is yet to come
C21_Witness ==
    /\ event.who = "cleaner"
    /\ event.op = "scan"
    /\ event.msg = "Cleaned expired keys"
    /\ LET db == heap[all_dbs[event.name].data]
       IN /\ DOMAIN files[event.name].data \ DOMAIN db # {}
          /\ \E k \in DOMAIN db : db[k].expires_at = NoExpiry
          /\ \E k \in DOMAIN db : db[k].expires_at # NoExpiry /\ db[k].expires_at >= now


\* C22: in a cycle of the cleaner persist() is called for a database exactly
\* when the scan of that database removed a record: a scan that removes
\* something is followed by the persist, a scan that removes nothing is not.
C22_PersistIffRemoved ==
    [][cleaner.pc = "scan" /\ cleaner' # cleaner
          => (cleaner'.pc = "persist" <=> heap' # heap)]_vars


\* C23: the cleaner, the eviction of GET and DEL may meet on the same
\* expired key. A GET or DEL leaves every other key as it is, leaves the key
\* absent when it is expired or deleted, and keeps its session going; on a
\* key that is already gone it answers not found and changes nothing. A scan
\* of the cleaner only takes keys away and the cleaner goes on to its persist.
C23_RemovalIdempotent ==
    [][/\ \A s \in Sessions :
            (event'.who = s /\ event'.op \in {"GET", "DEL"} /\ IsSome(current_db_instance[s]))
            => LET old == heap[current_db_instance[s].data]
                   new == heap'[current_db_instance[s].data]
                   k == event'.key
               IN /\ pc'[s] \in {"idle", "persist"}
                  /\ DOMAIN new \subseteq DOMAIN old
                  /\ \A j \in DOMAIN old \ {k} : j \in DOMAIN new /\ new[j] = old[j]
                  /\ (event'.op = "DEL" \/ (k \in DOMAIN old /\ IsExpired(old[k], now)))
                        => k \notin DOMAIN new
                  /\ k \notin DOMAIN old
                        => /\ event'.msg = "Error: Key not found"
                           /\ pc'[s] = "idle"
                           /\ heap' = heap
                           /\ files' = files
       /\ (cleaner.pc = "scan" /\ cleaner' # cleaner)
            => /\ cleaner'.pc = "persist"
               /\ DOMAIN heap' = DOMAIN heap
               /\ \A i \in DOMAIN heap : DOMAIN heap'[i] \subseteq DOMAIN heap[i]]_vars

\* C23 witness: the cleaner has removed an expired key in its scan and has
\* not yet saved, no session has a persist to do, and a GET or DEL of that key
\* finds it gone and answers not found
C23_Witness ==
    /\ event.op \in {"GET", "DEL"}
    /\ event.msg = "Error: Key not found"
    /\ cleaner.pc = "persist"
    /\ cleaner.cur = event.name
    /\ \A s \in Sessions : pc[s] # "persist"
    /\ event.key \in DOMAIN files[event.name].data
    /\ files[event.name].data[event.key].expires_at # NoExpiry
    /\ event.key \notin DOMAIN heap[all_dbs[event.name].data]

\* C23 witness, the other order: a GET has evicted an expired key, and the
\* scan of the cleaner that follows finds nothing to remove
C23_WitnessScanSecond ==
    /\ event.who = "cleaner"
    /\ event.op = "scan"
    /\ event.msg = ""
    /\ \E s \in Sessions :
          /\ pc[s] = "persist"
          /\ current_db_instance[s].data = all_dbs[event.name].data
          /\ \E k \in DOMAIN files[event.name].data \ DOMAIN heap[all_dbs[event.name].data] :
                files[event.name].data[k].expires_at # NoExpiry


C27_EvictionOnRead ==
    [][\A s \in Sessions :
          /\ (event'.who = s /\ event'.op = "GET" /\ IsSome(current_db_instance[s]))
               => LET old == heap[current_db_instance[s].data]
                      new == heap'[current_db_instance[s].data]
                      k == event'.key
                  IN /\ (k \in DOMAIN old /\ InThePast(old[k], now))
                          => /\ new = [j \in DOMAIN old \ {k} |-> old[j]]
                             /\ event'.msg = "Error: Key has expired and is deleted"
                             /\ event'.val = ""
                             /\ pc'[s] = "persist"
                     /\ k \notin DOMAIN old
                          => /\ event'.msg = "Error: Key not found"
                             /\ new = old
          /\ (pc[s] = "persist" /\ pc'[s] # "persist")
               => /\ event'.who = s
                  /\ event'.op = "persist"
                  /\ files' = PersistFile(current_db_instance[s], event'.msg = "saved")]_vars

\* C27 witness: a GET has just evicted one of three records; the two others
\* are in the map, the snapshot still holds all three, the persist is due
C27_Witness ==
    /\ event.op = "GET"
    /\ event.msg = "Error: Key has expired and is deleted"
    /\ pc[event.who] = "persist"
    /\ DOMAIN heap[current_db_instance[event.who].data] = SweepKeys \ {event.key}
    /\ DOMAIN files[event.name].data = SweepKeys

\* C27 witness, the GET that follows: the eviction is saved, no cleaner has
\* run since the load, and the GET of the key answers not found
C27_WitnessNextGet ==
    /\ event.op = "GET"
    /\ event.msg = "Error: Key not found"
    /\ event.key \notin DOMAIN files[event.name].data
    /\ cleaner.pc = "sleep"
    /\ DOMAIN heap[current_db_instance[event.who].data] = SweepKeys \ {event.key}


\* the auth configuration of an instance or of a snapshot
AuthConfig(x) == <<x.require_auth, x.username, x.password>>

\* C28: use of a name that is in the catalog takes the instance of the
\* catalog and reads no file into the catalog; use of a name that is only on
\* disk loads the snapshot and inserts the loaded instance under that name;
\* use of a name that is in neither answers not found, leaves the session
\* connected without selection and leaves the catalog as it is.
C28_UseResolves ==
    [][\A s \in Sessions :
          (event'.who = s /\ event'.op = "use" /\ ~IsSome(current_db_instance[s]))
          => LET n == event'.name
                 got == IF all_dbs'[n].require_auth THEN db_instance'[s]
                        ELSE current_db_instance'[s]
             IN /\ n \in DOMAIN all_dbs
                     => /\ DOMAIN all_dbs' = DOMAIN all_dbs
                        /\ AuthConfig(all_dbs'[n]) = AuthConfig(all_dbs[n])
                        /\ heap'[all_dbs'[n].data] = heap[all_dbs[n].data]
                        /\ got = all_dbs'[n]
                /\ (n \notin DOMAIN all_dbs /\ n \in DOMAIN files)
                     => /\ DOMAIN all_dbs' = DOMAIN all_dbs \cup {n}
                        /\ AuthConfig(all_dbs'[n]) = AuthConfig(files[n])
                        /\ DOMAIN heap'[all_dbs'[n].data] = DOMAIN files[n].data
                        /\ got = all_dbs'[n]
                /\ (n \notin DOMAIN all_dbs /\ n \notin DOMAIN files)
                     => /\ event'.msg = "Database not found"
                        /\ pc'[s] = "idle"
                        /\ current_db_instance'[s] = NoDb
                        /\ all_dbs' = all_dbs
                        /\ heap' = heap
                /\ files' = files]_vars

\* C28 witness: use of a name that is neither in the catalog nor on disk
\* was answered not found, and the session waits for its next command
C28_Witness ==
    /\ event.op = "use"
    /\ event.msg = "Database not found"
    /\ event.name \notin DOMAIN all_dbs
    /\ event.name \notin DOMAIN files
    /\ pc[event.who] = "idle"
    /\ ~IsSome(current_db_instance[event.who])

\* C28 witness, the load: use found the name only on disk and the catalog
\* now holds the loaded instance, with the credentials of the snapshot
C28_WitnessLoad ==
    /\ event.op = "use"
    /\ event.msg = "Username:"
    /\ event.name \in DOMAIN all_dbs
    /\ db_instance[event.who] = all_dbs[event.name]
    /\ \E s \in Sessions : pc[s] = "create_insert" /\ db_name[s] = event.name


\* C29: when a drop answers that the database is deleted, the name has no
\* catalog entry and no snapshot file; a file of a name that has none
\* appears only by the first save of a create, and a catalog entry of a name
\* that has neither appears only by the insertion of a create: no persist
\* of a session or of the cleaner brings a deleted database back.
C29_DroppedStaysGone ==
    [][\A n \in Names :
          /\ (event'.op = "drop" /\ event'.msg = "Database deleted successfully"
                 /\ event'.name = n)
               => (n \notin DOMAIN all_dbs' /\ n \notin DOMAIN files')
          /\ (n \notin DOMAIN files /\ n \in DOMAIN files')
               => (event'.who \in Sessions /\ pc[event'.who] \in {"create_choice", "create_cred"})
          /\ (n \notin DOMAIN all_dbs /\ n \notin DOMAIN files /\ n \in DOMAIN all_dbs')
               => (event'.who \in Sessions /\ pc[event'.who] = "create_insert")]_vars


\* C30: whenever a persist writes the snapshot of a name that is in the
\* catalog, the require_auth, username and password hash in the file are
\* those of the catalog entry of that name.
C30_SavedAuthIsCurrent ==
    [][(event'.op = "persist" /\ event'.msg = "saved" /\ event'.name \in DOMAIN all_dbs')
          => AuthConfig(files'[event'.name]) = AuthConfig(all_dbs'[event'.name])]_vars


\* a record of database n under key k is in the catalog past its deadline
Stale(n, k) ==
    /\ n \in DOMAIN all_dbs
    /\ k \in DOMAIN heap[all_dbs[n].data]
    /\ InThePast(heap[all_dbs[n].data][k], now)

\* C24: the task of the cleaner never ends while the process runs, and with
\* a fair scheduler a record of a database that is in the catalog does not
\* stay in its map for ever once its deadline has passed.
C24_SweeperLive ==
    /\ [](cleaner.pc # "dead")
    /\ \A n \in Names, k \in Keys : Stale(n, k) ~> ~Stale(n, k)

\* the seconds of one unit of a TTL
UnitSecs(unit) == IF unit = "s" THEN 1 ELSE IF unit = "m" THEN 60 ELSE 60 * 60 * 24

\* the error strings of a TTL (parser.rs:13, 21, 27)
TtlErrors == {"Empty TTL provided", "Invalid TTL number", "Invalid TTL unit (use s, m, or d)"}

\* the SET of the step is answered with an error string: nothing is
\* written and the session goes on
TtlRefused ==
    /\ event'.msg \in TtlErrors
    /\ heap' = heap
    /\ pc'[event'.who] = "idle"

\* C26: a SET with a TTL of N and a unit s, m or d either stores the record
\* with expires_at = now + N * (1, 60, 86400) seconds or answers with an
\* error string; for no N does the session end or a shorter deadline get
\* stored.  A SET with any other TTL text answers with an error string and
\* writes nothing.
C26_TtlExactOrError ==
    [][(event'.op = "SET" /\ event'.arg # NoTTLArg) =>
         IF event'.arg[1] >= 0 /\ event'.arg[2] \in {"s", "m", "d"}
         THEN \/ TtlRefused
              \/ /\ event'.msg = "OK"
                 /\ pc'[event'.who] = "persist"
                 /\ event'.arg[1] <= I64_MAX \div UnitSecs(event'.arg[2])
                 /\ heap'[current_db_instance[event'.who].data][event'.key].expires_at
                        = now + event'.arg[1] * UnitSecs(event'.arg[2]) * TicksPerSec
         ELSE TtlRefused]_vars

\* the spellings of "yes" among the replies
YesSpellings == {"yes", "YES", "Yes"}

\* C31: in create, every reply to the authentication prompt that is not
\* "yes" in some spelling, the empty line of a closed connection included,
\* makes an instance with require_auth = FALSE, saves it and goes on to the
\* insertion, and the insertion puts that instance into the catalog; only a
\* "yes" leads to the prompts for username and password, and only from
\* there comes an instance with require_auth = TRUE.
C31_OnlyYesAsksCredentials ==
    [][\A s \in Sessions :
          /\ \A reply \in ChoiceReplies \ YesSpellings :
                CreateChoice(s, reply, TRUE)
                  => /\ pc'[s] = "create_insert"
                     /\ db_instance'[s].name = db_name[s]
                     /\ AuthConfig(db_instance'[s]) = <<FALSE, NoUser, NoPassword>>
                     /\ AuthConfig(files'[db_name[s]]) = <<FALSE, NoUser, NoPassword>>
          /\ (pc[s] = "create_choice" /\ pc'[s] = "create_cred")
                => \E reply \in YesSpellings : CreateChoice(s, reply, TRUE)
          /\ \A reply \in YesSpellings :
                CreateChoice(s, reply, TRUE)
                  => (pc'[s] = "create_cred" /\ files' = files /\ all_dbs' = all_dbs)
          /\ (pc[s] # "create_insert" /\ pc'[s] = "create_insert" /\ db_instance'[s].require_auth)
                => pc[s] = "create_cred"
          /\ (pc[s] = "create_insert" /\ pc'[s] # "create_insert")
                => /\ db_name[s] \in DOMAIN all_dbs'
                   /\ AuthConfig(all_dbs'[db_name[s]]) = AuthConfig(db_instance[s])
                   /\ event'.msg = "Database created successfully"]_vars

\* C31 witness: a database made after a reply that is no "yes" has just
\* been put into the catalog without authentication, while another session
\* has said "yes" and is asked for its username and password
C31_Witness ==
    /\ event.op = "created"
    /\ event.name \in DOMAIN all_dbs
    /\ ~all_dbs[event.name].require_auth
    /\ \E s \in Sessions : pc[s] = "create_cred"

====
